---- MODULE Spec2Model ----
(***************************************************************************)
(* httpcache: a time-bounded in-memory response store (store.go), the      *)
(* cached handler built on it (service.go, internal/nethttp/handler.go,    *)
(* internal/fhttp/handler.go) and the pre-/post-request rules that decide  *)
(* whether the store is consulted or updated (internal/nethttp/denier.go,  *)
(* internal/fhttp/validator.go).                                           *)
(*                                                                         *)
(* Time is counted in whole seconds (time.Second is the unit of every      *)
(* duration the code compares).                                            *)
(***************************************************************************)
EXTENDS Integers, Sequences, FiniteSets, TLC

(***************************************************************************)
(* Bounds of the model.                                                    *)
(***************************************************************************)
\* the clock stops advancing at MaxTime
MaxTime == 5

(***************************************************************************)
(* Program constants.                                                      *)
(***************************************************************************)
failStatus == 400
successStatus == 200
contentText == "text/plain; charset=utf-8"
\* var minimumAllowedCacheDuration = 2 * time.Second
minimumAllowedCacheDuration == 2

(***************************************************************************)
(* Validation helpers.                                                     *)
(***************************************************************************)
\* a validation that lets the minimum itself pass
validateCacheDurationBelow(expiration) ==
    IF expiration < minimumAllowedCacheDuration
    THEN minimumAllowedCacheDuration * 2
    ELSE expiration

validateCacheDuration(expiration) ==
    IF expiration <= minimumAllowedCacheDuration
    THEN minimumAllowedCacheDuration * 2
    ELSE expiration

\* a validation that lets every status code pass
validateStatusCodeAny(statusCode) == statusCode

validateStatusCode(statusCode) ==
    IF statusCode <= 0 THEN successStatus ELSE statusCode

validateContentType(cType) ==
    IF cType = "" THEN contentText ELSE cType

(***************************************************************************)
(* parseMaxAge: the first match of the regular expression maxage=(\d+) in  *)
(* the Cache-Control header, as a number of seconds; -1 when the header is *)
(* empty or nothing matches.  A header value is a sequence of characters.  *)
(***************************************************************************)
Digits == <<"0", "1", "2", "3", "4", "5", "6", "7", "8", "9">>

IsDigit(c) == \E d \in 1..10 : Digits[d] = c

DigitVal(c) == (CHOOSE d \in 1..10 : Digits[d] = c) - 1

maxAgeExp == <<"m", "a", "x", "a", "g", "e", "=">>

\* does the literal prefix of the expression occur in header at position i
MatchesAt(header, i) ==
    /\ i + Len(maxAgeExp) <= Len(header)
    /\ \A j \in 1..Len(maxAgeExp) : header[i + j - 1] = maxAgeExp[j]
    /\ IsDigit(header[i + Len(maxAgeExp)])

\* the end of the longest run of digits starting at position i
RECURSIVE DigitsEnd(_, _)
DigitsEnd(header, i) ==
    IF i + 1 <= Len(header) /\ IsDigit(header[i + 1])
    THEN DigitsEnd(header, i + 1)
    ELSE i

\* the decimal digits of the largest int, 1<<63 - 1
maxIntDigits ==
    <<"9", "2", "2", "3", "3", "7", "2", "0", "3", "6",
      "8", "5", "4", "7", "7", "5", "8", "0", "7">>

\* the position of the first digit of header[i..j] that is not a leading zero
RECURSIVE SkipZeros(_, _, _)
SkipZeros(header, i, j) ==
    IF i < j /\ header[i] = "0" THEN SkipZeros(header, i + 1, j) ELSE i

\* the number header[i..j] denotes is above the largest int: it has more
\* digits, or as many and a larger digit at the first place they differ
rangeError(header, i, j) ==
    LET k == SkipZeros(header, i, j)
        n == j - k + 1
    IN  \/ n > Len(maxIntDigits)
        \/ /\ n = Len(maxIntDigits)
           /\ \E p \in 1..n :
                 /\ \A q \in 1..(p - 1) : header[k + q - 1] = maxIntDigits[q]
                 /\ DigitVal(header[k + p - 1]) > DigitVal(maxIntDigits[p])

\* the number the digits header[i..j] denote
RECURSIVE DigitsValue(_, _, _)
DigitsValue(header, i, j) ==
    IF i > j THEN 0
    ELSE DigitsValue(header, i, j - 1) * 10 + DigitVal(header[j])

\* strconv.Atoi of the digits header[i..j]: the number, or the error of a
\* number that does not fit an int
Atoi(header, i, j) ==
    IF rangeError(header, i, j) THEN [err |-> TRUE]
    ELSE [err |-> FALSE, v |-> DigitsValue(header, i, j)]

parseMaxAge(header) ==
    IF header = <<>> THEN -1
    ELSE LET hits == {i \in 1..Len(header) : MatchesAt(header, i)}
         IN  IF hits = {} THEN -1
             ELSE LET i == CHOOSE x \in hits : \A y \in hits : x <= y
                      s == i + Len(maxAgeExp)
                      r == Atoi(header, s, DigitsEnd(header, s))
                  IN  IF ~r.err THEN r.v ELSE -1

(***************************************************************************)
(* Requests.  A request has a method, a URL (path and raw query) and       *)
(* headers; the header names are the canonical ones http.Header.Get looks  *)
(* up.                                                                     *)
(***************************************************************************)
NoHeaders ==
    [Authorization |-> "", ProxyAuthenticate |-> "", MustRevalidate |-> "",
     SMaxage |-> "", MaxAge |-> "", XNoCache |-> "", CacheControl |-> <<>>]

Req(method, path, query, header) ==
    [Method |-> method, Path |-> path, RawQuery |-> query, Header |-> header]

NoReq == Req("", "", "", NoHeaders)

\* the requests of the model: the plain route, the same route under another
\* method and query, requests the default rules turn away, and the routes whose
\* handlers answer with an empty body, call NoCache or are refused by a
\* post-rule
Requests ==
    { Req("GET", "/", "", NoHeaders),
      Req("POST", "/", "q=1", NoHeaders),
      Req("GET", "/", "", [NoHeaders EXCEPT !.Authorization = "basic"]),
      Req("GET", "/", "", [NoHeaders EXCEPT !.MaxAge = "0"]),
      Req("GET", "/empty", "", NoHeaders),
      Req("GET", "/nocache", "", NoHeaders),
      Req("GET", "/invalid2", "", NoHeaders) }

\* the requests of the routes that Service.Cache wraps
ServiceRequests == {r \in Requests : r.Path \in {"/", "/empty"} /\ r.Header = NoHeaders}

\* requests for a route whose handler is wrapped with a duration at the
\* minimum: they carry a Cache-Control header, with max-age in its standard
\* spelling, in the spelling of the expression, or without it
HeaderRequests ==
    { Req("GET", "/ttl", "", [NoHeaders EXCEPT !.CacheControl =
                                 <<"m", "a", "x", "-", "a", "g", "e", "=", "3">>]),
      Req("GET", "/ttl", "", [NoHeaders EXCEPT !.CacheControl =
                                 <<"m", "a", "x", "a", "g", "e", "=", "3">>]),
      Req("GET", "/ttl", "", [NoHeaders EXCEPT !.CacheControl =
                                 <<"p", "u", "b", "l", "i", "c">>]) }

AllRequests == Requests \cup HeaderRequests

\* the headers the default pre-request rules read, each absent, with the
\* value a rule looks for, or with another value
RuleHeaders ==
    [Authorization : {"", "basic"}, ProxyAuthenticate : {"", "basic"},
     MustRevalidate : {"", "true"}, SMaxage : {"", "0", "1"},
     MaxAge : {"", "0", "1"}, XNoCache : {"", "true", "1"},
     CacheControl : {<<>>}]

\* one request of the plain route for each of these headers
RuleRequests == {Req("GET", "/", "", h) : h \in RuleHeaders}

\* a request for the route whose handler answers with the status 400
StatusRequests == {Req("GET", "/bad", "", NoHeaders)}

\* the requests a pre-request rule can be asked about
ClaimRequests == AllRequests \cup RuleRequests \cup StatusRequests

getMaxAge(req) == parseMaxAge(req.Header.CacheControl)

\* getCacheKey: req.URL.EscapedPath(); the paths of the model hold no
\* character that EscapedPath escapes
getCacheKey(req) == req.Path

Keys == {getCacheKey(r) : r \in AllRequests}

(***************************************************************************)
(* Pre-request rules.  A Denier answers TRUE when the request must bypass  *)
(* the cache; DefaultDeniers is the list every handler starts with.        *)
(***************************************************************************)
\* a first rule that looks at Proxy-Authenticate only
ProxyAuthenticateDenier ==
    [r \in ClaimRequests |-> r.Header.ProxyAuthenticate # ""]

\* #1 no cached response for a request with an Authorization header field
AuthorizationDenier ==
    [r \in ClaimRequests |->
        r.Header.Authorization # "" \/ r.Header.ProxyAuthenticate # ""]

\* #2 must-revalidate, s-maxage=0, max-age=0 and the X-No-Cache header
RevalidateDenier ==
    [r \in ClaimRequests |->
        \/ r.Header.MustRevalidate # ""
        \/ r.Header.SMaxage = "0"
        \/ r.Header.MaxAge = "0"
        \/ r.Header.XNoCache # ""]

DefaultDeniers == <<AuthorizationDenier, RevalidateDenier>>

\* a first pre-validator that reads Proxy-Authenticate only
ProxyAuthenticatePreValidator ==
    [r \in ClaimRequests |-> r.Header.ProxyAuthenticate = ""]

\* fasthttp #1: TRUE when the request has no Authorization header field
AuthorizationPreValidator ==
    [r \in ClaimRequests |->
        r.Header.Authorization = "" /\ r.Header.ProxyAuthenticate = ""]

\* fasthttp #2: must-revalidate, s-maxage=0, max-age=0 and the no-cache header
RevalidatePreValidator ==
    [r \in ClaimRequests |->
        /\ r.Header.MustRevalidate = ""
        /\ r.Header.SMaxage # "0"
        /\ r.Header.MaxAge # "0"
        /\ r.Header.XNoCache # "true"]

DefaultPreValidators == <<AuthorizationPreValidator, RevalidatePreValidator>>

\* a claim that asks no rule
claimAlways(deniers, req) == TRUE

\* Handler.ServeHTTP's loop over the deniers / Validator.claim: FALSE at the
\* first rule that turns the request away
RECURSIVE claim(_, _)
claim(deniers, req) ==
    IF deniers = <<>> THEN TRUE
    ELSE IF Head(deniers)[req] THEN FALSE
    ELSE claim(Tail(deniers), req)

\* fasthttp, Validator.claim: FALSE at the first pre-validator that answers
\* FALSE
\* a claim that asks no pre-validator
claimFasthttpAlways(preValidators, req) == TRUE

RECURSIVE claimFasthttp(_, _)
claimFasthttp(preValidators, req) ==
    IF preValidators = <<>> THEN TRUE
    ELSE IF ~Head(preValidators)[req] THEN FALSE
    ELSE claimFasthttp(Tail(preValidators), req)

(***************************************************************************)
(* Responses and post-response rules.  A response sink holds the headers   *)
(* the handler set, the status code sent (0: none yet) and the bytes       *)
(* written so far.                                                         *)
(***************************************************************************)
NoRespHeaders == [ContentType |-> "", XNoCache |-> "", DONT |-> ""]

RespHeaders ==
    [ContentType : {"", contentText, "text/html"},
     XNoCache : {"", "true"}, DONT : {"", "x"}]

NewSink == [Header |-> NoRespHeaders, StatusCode |-> 0, Body |-> <<>>]

\* a post-validator a handler is given: it refuses the response that carries
\* the marker NoCache leaves
NoCacheValidator == [h \in RespHeaders |-> h.XNoCache # "true"]

\* the post-rule of the managed handler of TestCacheValidator
DontRule == [h \in RespHeaders |-> h.DONT = ""]

\* the default post-validators: none
DefaultPostValidators == <<>>

\* Validator.ValidWhen: the post-validators are appended to the list
ValidWhen(postValidators, postValidatorsFn) == postValidators \o postValidatorsFn

\* a valid that returns after asking the first post-rule
validFirstOnly(postRules, header) ==
    IF postRules = <<>> THEN TRUE ELSE Head(postRules)[header]

\* Validator.valid: FALSE at the first post-rule that refuses the response
RECURSIVE valid(_, _)
valid(postRules, header) ==
    IF postRules = <<>> THEN TRUE
    ELSE IF ~Head(postRules)[header] THEN FALSE
    ELSE valid(Tail(postRules), header)

(***************************************************************************)
(* The response recorder: it keeps the first status code and every chunk   *)
(* written, and forwards both to the sink it wraps.                        *)
(***************************************************************************)
\* http.ResponseWriter.WriteHeader on the real sink: the first call wins
SinkWriteHeader(sink, statusCode) ==
    IF sink.StatusCode = 0 THEN [sink EXCEPT !.StatusCode = statusCode]
    ELSE sink

\* http.ResponseWriter.Write on the real sink: an implicit 200 when no
\* header was sent
SinkWrite(sink, contents) ==
    LET s == SinkWriteHeader(sink, successStatus)
    IN  [s EXCEPT !.Body = @ \o contents]

\* a write of contents at the start of a buffer, seen through a slice that
\* points into it: the slice keeps its length
Overwrite(bytes, contents) ==
    [i \in 1..Len(bytes) |-> IF i <= Len(contents) THEN contents[i] ELSE bytes[i]]

\* the same write, seen through a body that may point into buffer b
Seen(body, b, contents) ==
    IF body.buf = b THEN [body EXCEPT !.bytes = Overwrite(@, contents)] ELSE body

\* a []byte the handler passes to Write: the buffer it points into and the
\* bytes it shows
Slice(b, bytes) == [buf |-> b, bytes |-> bytes]

\* the recorder over a response writer; sent lists the calls the recorder
\* has made on the writer
acquireResponseRecorder(underline) ==
    [underline |-> underline, chunks |-> <<>>, statusCode |-> 0, sent |-> <<>>]

RecWriteHeader(res, statusCode) ==
    IF res.statusCode = 0
    THEN [res EXCEPT !.statusCode = statusCode,
                     !.underline = SinkWriteHeader(@, statusCode),
                     !.sent = Append(@, [op |-> "WriteHeader",
                                         statusCode |-> statusCode])]
    ELSE res

\* Write: the slice itself is appended to the chunks, its bytes go to the
\* writer
RecWrite(res, contents) ==
    LET r == IF res.statusCode = 0 THEN RecWriteHeader(res, successStatus)
             ELSE res
    IN  [r EXCEPT !.chunks = Append(@, contents),
                  !.underline = SinkWrite(@, contents.bytes),
                  !.sent = Append(@, [op |-> "Write", contents |-> contents.bytes])]

\* the handler puts contents into its buffer b: the chunks that point into b
\* show the new bytes
Fill(res, b, contents) ==
    [res EXCEPT !.chunks = [i \in DOMAIN @ |-> Seen(@[i], b, contents)]]

RECURSIVE JoinChunks(_)
JoinChunks(chunks) ==
    IF chunks = <<>> THEN <<>>
    ELSE Head(chunks).bytes \o JoinChunks(Tail(chunks))

getBody(res) == JoinChunks(res.chunks)

getResponseContentType(res) ==
    validateContentType(res.underline.Header.ContentType)

\* NoCache: the handler marks its own response as not cacheable
NoCache(header) == [header EXCEPT !.XNoCache = "true"]

(***************************************************************************)
(* The origin handlers behind the cached routes, as the calls each makes   *)
(* on the response writer it is given.  The body names the request that    *)
(* produced it.                                                            *)
(***************************************************************************)
OriginBody(req) == <<req.Method, req.Path, req.RawQuery>>

OriginCalls(req) ==
    CASE req.Path = "/empty" ->
            <<[op |-> "WriteHeader", statusCode |-> 204]>>
      [] req.Path = "/nocache" ->
            <<[op |-> "NoCache"], [op |-> "Write", buf |-> "b1", contents |-> OriginBody(req)]>>
      [] req.Path = "/invalid2" ->
            <<[op |-> "SetDONT"], [op |-> "Write", buf |-> "b1", contents |-> OriginBody(req)]>>
      [] req.Path = "/bad" ->
            <<[op |-> "WriteHeader", statusCode |-> 400],
              [op |-> "Write", buf |-> "b1", contents |-> OriginBody(req)]>>
      [] req.Method = "POST" ->
            <<[op |-> "WriteHeader", statusCode |-> 201],
              [op |-> "Write", buf |-> "b1", contents |-> OriginBody(req)]>>
      [] OTHER ->
            <<[op |-> "Write", buf |-> "b1", contents |-> OriginBody(req)]>>

\* a header call of the handler, on the header map of the real sink
SinkSetHeader(sink, call) ==
    IF call.op = "NoCache"
    THEN [sink EXCEPT !.Header = NoCache(@)]
    ELSE [sink EXCEPT !.Header.DONT = "x"]

\* bodyHandler.ServeHTTP(w, r): the handler writes to the real sink
RECURSIVE ServeDirect(_, _)
ServeDirect(calls, sink) ==
    IF calls = <<>> THEN sink
    ELSE LET c == Head(calls)
             s == CASE c.op = "WriteHeader" -> SinkWriteHeader(sink, c.statusCode)
                    [] c.op = "Write" -> SinkWrite(sink, c.contents)
                    [] OTHER -> SinkSetHeader(sink, c)
         IN  ServeDirect(Tail(calls), s)

\* bodyHandler.ServeHTTP(recorder, r): the handler writes to the recorder
RECURSIVE ServeRecorded(_, _)
ServeRecorded(calls, res) ==
    IF calls = <<>> THEN res
    ELSE LET c == Head(calls)
             r == CASE c.op = "WriteHeader" -> RecWriteHeader(res, c.statusCode)
                    [] c.op = "Write" -> RecWrite(Fill(res, c.buf, c.contents),
                                                  Slice(c.buf, c.contents))
                    [] OTHER -> [res EXCEPT !.underline = SinkSetHeader(@, c)]
         IN  ServeRecorded(Tail(calls), r)

(***************************************************************************)
(* The cached routes: every route is wrapped with the same duration; the   *)
(* handler of /invalid2 is given the post-rule of TestCacheValidator.      *)
(***************************************************************************)
\* the duration the routes are wrapped with, above the minimum
cacheDuration == 3

\* the duration each route's handler is wrapped with
RouteDuration(path) ==
    IF path = "/ttl" THEN minimumAllowedCacheDuration ELSE cacheDuration

RouteDeniers(path) == DefaultDeniers

\* NewHandler gives every handler DefaultValidator(): the default
\* pre-validators and the default post-validators
RoutePreValidators(path) == DefaultPreValidators

\* the handler of /invalid2 is given two post-validators with ValidWhen
RoutePostRules(path) ==
    IF path = "/invalid2"
    THEN ValidWhen(DefaultPostValidators, <<NoCacheValidator, DontRule>>)
    ELSE DefaultPostValidators

(***************************************************************************)
(* State.                                                                  *)
(***************************************************************************)
VARIABLES
    now,         \* time.Now(), in seconds
    cache,       \* memoryStore.cache: key -> Entry, on the keys present
    gcOn,        \* the tick intervals of the sweep goroutines startGC started
    sweep,       \* the sweep goroutine: its next tick and the clock it read
    expiration,  \* per route, the expiration variable Cache's closure holds
    workers,     \* the goroutines serving requests or calling the store
    tasks,       \* per worker, the goroutine running its Store.Set
    lastSet      \* per key, the arguments of the Set that took effect last

vars == <<now, cache, gcOn, sweep, expiration, workers, tasks, lastSet>>

Workers == {"w1", "w2"}

NilEntry == [StatusCode |-> 0, ContentType |-> "", Body |-> <<>>, Expires |-> 0]

\* what Client.Do returned for the GET to the remote cache: an error, or a
\* response whose body can or cannot be read; timedOut tells that
\* Client.Timeout passed, before Client.Do returned or while the body was read
NoResponse ==
    [err |-> FALSE, StatusCode |-> 0, ContentType |-> "", Body |-> <<>>,
     readable |-> TRUE, timedOut |-> FALSE]

IdleWorker ==
    [pc |-> "idle", kind |-> "", req |-> NoReq, key |-> "", v |-> NilEntry,
     sink |-> NewSink, path |-> "", originCalls |-> 0, storeOps |-> 0,
     sched |-> 0, cov |-> FALSE, known |-> FALSE,
     setAt |-> 0, setTTL |-> 0, at |-> 0, gcDuration |-> 0, calls |-> 0,
     out |-> NoReq, remote |-> NoResponse, gets |-> 0, posts |-> 0,
     handler |-> <<>>, rec |-> acquireResponseRecorder(NewSink), rules |-> FALSE]

\* an expiration check that is off by one: Expires itself counts as after
ExpiredAtExpires(e, t) == t >= e.Expires

\* time.Now().After(e.Expires)
Expired(e, t) == t > e.Expires

(***************************************************************************)
(* memoryStore.                                                            *)
(***************************************************************************)
\* GC checks for expired entries every tick of this time (30 minutes)
GC == 1800

\* a Once that runs the function at every call
onceDoAgain(on, gcDuration) == Append(on, gcDuration)

\* s.once.Do: the sweep goroutine is started unless the Once has run, which
\* it has exactly when a sweep goroutine was started
onceDo(on, gcDuration) == IF on = <<>> THEN <<gcDuration>> ELSE on

\* startGC: the sweep goroutine is started only above the minimum duration,
\* and once
startGC(on, gcDuration) ==
    IF gcDuration > minimumAllowedCacheDuration THEN onceDo(on, gcDuration) ELSE on

\* the tick interval of the stores that sweep, in seconds
gcInterval == 3

\* the sweep goroutine before it is started
NoSweep == [pc |-> "off", next |-> 0, at |-> 0]

\* tick := time.Tick(gcDuration); go func() { for range tick { ... } }(), at
\* time t: the goroutine waits for its first tick, due one interval later
StartSweep(on, t) ==
    IF on = <<>> THEN NoSweep ELSE [pc |-> "wait", next |-> t + on[1], at |-> 0]

\* the tick after the one due at next, received at time t: the channel of
\* time.Tick holds one tick, and the ticks that fell due while it was full
\* are dropped
NextTick(next, d, t) ==
    IF t - next <= d THEN next + d ELSE next + d * ((t - next + d - 1) \div d)

\* the Entry that Set builds, at time t
NewEntry(statusCode, cType, body, exp, t) ==
    [StatusCode |-> validateStatusCode(statusCode),
     ContentType |-> validateContentType(cType),
     Body |-> body,
     Expires |-> t + validateCacheDuration(exp)]

\* a mapping whose entry keeps the body it already holds when it is replaced
CachePutMerged(c, key, e) ==
    [k \in DOMAIN c \cup {key} |->
        IF k = key
        THEN (IF key \in DOMAIN c /\ "Body" \in DOMAIN e
              THEN [e EXCEPT !.Body = c[key].Body]
              ELSE e)
        ELSE c[k]]

\* s.cache[key] = e
CachePut(c, key, e) ==
    [k \in DOMAIN c \cup {key} |-> IF k = key THEN e ELSE c[k]]

\* a delete that empties the map
CacheDeleteAll(c, key) == [k \in {} |-> NilEntry]

\* delete(s.cache, key)
CacheDelete(c, key) == [k \in DOMAIN c \ {key} |-> c[k]]

\* a Clear that deletes nothing
CacheClearNone(c) == c

\* Clear: delete(s.cache, k) for every key k
CacheClear(c) == [k \in {} |-> NilEntry]

\* a tick of the sweep that deletes nothing
SweepKeep(c, t) == c

\* one tick of the sweep: every entry with now.After(v.Expires) is deleted
Sweep(c, t) == [k \in {x \in DOMAIN c : ~Expired(c[x], t)} |-> c[k]]

\* the record of the Set that took effect last on a key is closed when a
\* caller of the store removes the key or clears the store
Disturb(ls, keys) ==
    [k \in DOMAIN ls |-> IF k \in keys THEN [ls[k] EXCEPT !.ok = FALSE] ELSE ls[k]]

\* a Set whose goroutine is never started
SetTaskDropped(key, statusCode, cType, body, exp) ==
    [key |-> key, statusCode |-> statusCode, cType |-> cType, body |-> body,
     expiration |-> exp, pc |-> "none", at |-> 0, e |-> NilEntry, stale |-> FALSE]

\* Set(key, statusCode, cType, body, expiration), not yet started; stale
\* tells that Invalidate or Clear has removed the key since the call
SetTask(key, statusCode, cType, body, exp) ==
    [key |-> key, statusCode |-> statusCode, cType |-> cType, body |-> body,
     expiration |-> exp, pc |-> "new", at |-> 0, e |-> NilEntry, stale |-> FALSE]

NoTask == [SetTask("", 0, "", <<>>, 0) EXCEPT !.pc = "none"]

\* the Sets under way for one of the keys saw the keys removed
MarkStale(ts, keys) ==
    [x \in DOMAIN ts |->
        IF ts[x].pc # "none" /\ ts[x].key \in keys
        THEN [ts[x] EXCEPT !.stale = TRUE] ELSE ts[x]]

\* the goroutines the model can still start for a Set
FreeSlots(ts) == {x \in Workers : ts[x].pc = "none"}

\* the workers inside the cached handler
InFlight(ws) == {x \in Workers : ws[x].pc \notin {"idle", "done"}}

Init ==
    /\ now = 0
    /\ cache = [k \in {} |-> NilEntry]
    /\ gcOn \in {startGC(<<>>, d) : d \in {minimumAllowedCacheDuration, gcInterval}}
    /\ sweep = StartSweep(gcOn, 0)
    /\ expiration = [p \in Keys |-> validateCacheDuration(RouteDuration(p))]
    /\ workers = [w \in Workers |-> IdleWorker]
    /\ tasks = [w \in Workers |-> NoTask]
    /\ lastSet = [k \in {} |-> [at |-> 0, ttl |-> 0, ok |-> FALSE]]

\* the clock advances
Tick ==
    /\ now < MaxTime
    /\ now' = now + 1
    /\ UNCHANGED <<cache, gcOn, sweep, expiration, workers, tasks, lastSet>>

\* for range tick { now := time.Now(): the sweep goroutine receives a tick
\* that is due and reads the clock
GCTick ==
    /\ sweep.pc = "wait"
    /\ now >= sweep.next
    /\ sweep' = [pc |-> "read", next |-> NextTick(sweep.next, gcOn[1], now),
                 at |-> now]
    /\ UNCHANGED <<now, cache, gcOn, expiration, workers, tasks, lastSet>>

\* the rest of the tick, under the exclusive lock: the entries that the
\* clock read at the tick is after are deleted
GCSweep ==
    /\ sweep.pc = "read"
    /\ cache' = Sweep(cache, sweep.at)
    /\ sweep' = [sweep EXCEPT !.pc = "wait", !.at = 0]
    /\ UNCHANGED <<now, gcOn, expiration, workers, tasks, lastSet>>

\* a handler that runs the origin handler after a hit as well
AfterGetOrigin(kind, hit) ==
    IF kind = "req" THEN "origin"
    ELSE IF kind = "serveGet" THEN "reply"
    ELSE "done"

\* where the caller of Get goes on when Get returns: the cached handler runs
\* the origin handler on a miss and is done with a hit, the server answers
\* its GET, a direct caller is done
AfterGet(kind, hit) ==
    IF kind = "req" /\ ~hit THEN "origin"
    ELSE IF kind = "serveGet" THEN "reply"
    ELSE "done"

\* Get, first part: the map is read under the shared lock
GetRead(w) ==
    LET me == workers[w]
        found == me.key \in DOMAIN cache
        known == me.key \in DOMAIN lastSet
        seen == [me EXCEPT
                   !.storeOps = @ + 1,
                   !.known = known,
                   !.cov = known /\ lastSet[me.key].ok,
                   !.setAt = IF known THEN lastSet[me.key].at ELSE 0,
                   !.setTTL = IF known THEN lastSet[me.key].ttl ELSE 0,
                   !.at = now]
    IN  /\ me.pc = "getRead"
        /\ workers' = [workers EXCEPT ![w] =
              IF found
              THEN [seen EXCEPT !.pc = "getCheck", !.v = cache[me.key]]
              ELSE [seen EXCEPT !.pc = AfterGet(me.kind, FALSE), !.path = "miss"]]
        /\ UNCHANGED <<now, cache, gcOn, sweep, expiration, tasks, lastSet>>

\* a hit that writes the body before the status code: the sink has then
\* already sent the implicit 200
WriteBodyFirst(sink, v) ==
    SinkWriteHeader(SinkWrite([sink EXCEPT !.Header.ContentType = v.ContentType],
                              v.Body),
                    v.StatusCode)

\* what the cached handler writes on a hit
WriteEntry(sink, v) ==
    SinkWrite(SinkWriteHeader([sink EXCEPT !.Header.ContentType = v.ContentType],
                              v.StatusCode),
              v.Body)

\* Get, second part: the expiration check, after the shared lock is released;
\* on a hit the cached handler writes the entry and returns
GetCheck(w) ==
    LET me == workers[w]
        same == /\ me.key \in DOMAIN lastSet
                /\ lastSet[me.key].ok
                /\ lastSet[me.key].at = me.setAt
                /\ lastSet[me.key].ttl = me.setTTL
        seen == [me EXCEPT !.at = now, !.cov = @ /\ same]
    IN  /\ me.pc = "getCheck"
        /\ workers' = [workers EXCEPT ![w] =
              IF Expired(me.v, now)
              THEN [seen EXCEPT !.pc = "getRemove"]
              ELSE [seen EXCEPT !.pc = AfterGet(me.kind, TRUE), !.path = "hit",
                                !.sink = IF me.kind = "req"
                                         THEN WriteEntry(me.sink, me.v)
                                         ELSE me.sink]]
        /\ UNCHANGED <<now, cache, gcOn, sweep, expiration, tasks, lastSet>>

\* Get, third part: s.Remove(key) of the entry found expired
GetRemove(w) ==
    LET me == workers[w]
    IN  /\ me.pc = "getRemove"
        /\ cache' = CacheDelete(cache, me.key)
        /\ workers' = [workers EXCEPT ![w] =
              [me EXCEPT !.pc = AfterGet(me.kind, FALSE), !.path = "miss"]]
        /\ UNCHANGED <<now, gcOn, sweep, expiration, tasks, lastSet>>

\* Set, first part: the Entry is built, with time.Now(), before the lock
SetBegin(w) ==
    LET t == tasks[w]
    IN  /\ t.pc = "new"
        /\ tasks' = [tasks EXCEPT ![w] =
              [t EXCEPT !.pc = "ready", !.at = now,
                        !.e = NewEntry(t.statusCode, t.cType, t.body, t.expiration, now)]]
        /\ UNCHANGED <<now, cache, gcOn, sweep, expiration, workers, lastSet>>

\* Set, second part: the entry replaces the mapping under the exclusive lock
SetCommit(w) ==
    LET t == tasks[w]
    IN  /\ t.pc = "ready"
        /\ cache' = CachePut(cache, t.key, t.e)
        /\ lastSet' = CachePut(lastSet, t.key,
                               [at |-> t.at, ttl |-> t.expiration, ok |-> TRUE])
        /\ tasks' = [tasks EXCEPT ![w] = NoTask]
        /\ UNCHANGED <<now, gcOn, sweep, expiration, workers>>

(***************************************************************************)
(* The cached handler.                                                     *)
(***************************************************************************)
\* Handler of internal/fhttp keeps one entry of its own; the model keeps the
\* entry of the handler a route is registered with in the map, under the
\* route's path
HandlerEntry(req) == req.Path

\* entry.Response(): the stored response, when there is one that has not
\* expired
EntryResponse(c, key, t) ==
    IF key \in DOMAIN c /\ ~Expired(c[key], t)
    THEN [exists |-> TRUE, res |-> c[key]]
    ELSE [exists |-> FALSE, res |-> NilEntry]

\* the lifetime entry.Reset gives the response: the duration the handler
\* was built with, or the request's max-age when that duration is not valid
EntryLife(expireDuration, req) ==
    IF expireDuration <= minimumAllowedCacheDuration THEN getMaxAge(req)
    ELSE expireDuration

\* entry.Reset: the entry holds the new response from the moment of the call
EntryReset(c, key, statusCode, cType, body, life, t) ==
    CachePut(c, key, NewEntry(statusCode, cType, body, life, t))

\* Handler.ServeHTTP is entered: the pre-validators decide whether the cache
\* is used; a request they turn away is served by the origin handler on
\* the request context and the handler returns
Serve(w, req) ==
    /\ workers[w].pc \in {"idle", "done"}
    /\ workers' = [workers EXCEPT ![w] =
          IF claimFasthttp(RoutePreValidators(req.Path), req)
          THEN [IdleWorker EXCEPT !.pc = "response", !.kind = "req", !.req = req,
                                  !.key = HandlerEntry(req), !.rules = TRUE]
          ELSE [IdleWorker EXCEPT !.pc = "done", !.kind = "req", !.req = req,
                                  !.path = "denied", !.originCalls = 1,
                                  !.rules = TRUE,
                                  !.sink = ServeDirect(OriginCalls(req), NewSink)]]
    /\ UNCHANGED <<now, cache, gcOn, sweep, expiration, tasks, lastSet>>

\* Handler.ServeHTTP asks its entry: a stored response is written to the
\* request context and the handler returns, otherwise the origin handler
\* is next
Response(w) ==
    LET me == workers[w]
        r == EntryResponse(cache, me.key, now)
        seen == [me EXCEPT !.storeOps = @ + 1, !.at = now,
                           !.known = me.key \in DOMAIN cache]
    IN  /\ me.pc = "response"
        /\ workers' = [workers EXCEPT ![w] =
              IF r.exists
              THEN [seen EXCEPT !.pc = "done", !.path = "hit", !.v = r.res,
                                !.sink = WriteEntry(me.sink, r.res)]
              ELSE [seen EXCEPT !.pc = "origin", !.path = "miss"]]
        /\ UNCHANGED <<now, cache, gcOn, sweep, expiration, tasks, lastSet>>

\* the handler Service.Cache returns is called: it asks no rule and goes on
\* with store.Get.  A request arrives only while the model can still start
\* the goroutine of its Set.
CacheServe(w, req) ==
    /\ workers[w].pc \in {"idle", "done"}
    /\ Cardinality(FreeSlots(tasks)) > Cardinality(InFlight(workers))
    /\ workers' = [workers EXCEPT ![w] =
          [IdleWorker EXCEPT !.pc = "getRead", !.kind = "req", !.req = req,
                             !.key = getCacheKey(req)]]
    /\ UNCHANGED <<now, cache, gcOn, sweep, expiration, tasks, lastSet>>

\* a handler that persists a response without a body as well
hasBodyAlways(body) == TRUE

\* if len(body) == 0 { return }
hasBody(body) == Len(body) # 0

\* a handler that renews its entry without asking the post-validators
PersistsUnasked(postRules, out) == Len(out.Body) # 0

\* whether Handler.ServeHTTP renews its entry with the response on the
\* request context: the post-validators accept it and its body is not empty
Persists(postRules, out) ==
    /\ valid(postRules, out.Header)
    /\ Len(out.Body) # 0

\* a closure that takes the request's max-age whenever the request has one
PersistExpirationHeader(exp, req) ==
    IF getMaxAge(req) > 0 THEN getMaxAge(req) ELSE exp

\* the expiration handed to Set: the closure's variable, or the request's
\* max-age when that variable is at or below the minimum
PersistExpiration(exp, req) ==
    IF exp <= minimumAllowedCacheDuration THEN getMaxAge(req) ELSE exp

\* Service.Cache on a miss: the origin handler runs through the recorder and
\* a response with a body is handed to a detached Store.Set
Origin(w) ==
    LET me == workers[w]
        res == ServeRecorded(OriginCalls(me.req), acquireResponseRecorder(me.sink))
        keep == hasBody(getBody(res))
        exp == PersistExpiration(expiration[me.req.Path], me.req)
        slot == CHOOSE x \in FreeSlots(tasks) : TRUE
    IN  /\ me.pc = "origin" /\ ~me.rules
        /\ workers' = [workers EXCEPT ![w] =
              [me EXCEPT !.pc = "done", !.sink = res.underline,
                         !.originCalls = @ + 1,
                         !.storeOps = IF keep THEN @ + 1 ELSE @,
                         !.sched = IF keep THEN @ + 1 ELSE @,
                         !.path = IF keep THEN "persist" ELSE "invalid"]]
        /\ tasks' = IF keep
                    THEN [tasks EXCEPT ![slot] =
                            SetTask(me.key, res.statusCode,
                                    getResponseContentType(res), getBody(res), exp)]
                    ELSE tasks
        /\ expiration' = IF keep
                         THEN [expiration EXCEPT ![me.req.Path] = exp]
                         ELSE expiration
        /\ UNCHANGED <<now, cache, gcOn, sweep, lastSet>>

\* Handler.ServeHTTP on a miss: the origin handler runs on the request
\* context, and a response that the post-validators accept and that has a
\* body renews the entry, by h.entry.Reset, before the handler returns
OriginValid(w) ==
    LET me == workers[w]
        out == ServeDirect(OriginCalls(me.req), me.sink)
        keep == Persists(RoutePostRules(me.req.Path), out)
        life == EntryLife(RouteDuration(me.req.Path), me.req)
    IN  /\ me.pc = "origin" /\ me.rules
        /\ workers' = [workers EXCEPT ![w] =
              [me EXCEPT !.pc = "done", !.sink = out,
                         !.originCalls = @ + 1,
                         !.storeOps = IF keep THEN @ + 1 ELSE @,
                         !.sched = IF keep THEN @ + 1 ELSE @,
                         !.path = IF keep THEN "persist" ELSE "invalid"]]
        /\ cache' = IF keep
                    THEN EntryReset(cache, me.key, out.StatusCode,
                                    out.Header.ContentType, out.Body, life, now)
                    ELSE cache
        /\ UNCHANGED <<now, gcOn, sweep, expiration, tasks, lastSet>>

(***************************************************************************)
(* The Store called directly: Set, Get, Remove and Clear from concurrent   *)
(* goroutines.                                                             *)
(***************************************************************************)
StoreKeys == {"/"}

\* the durations handed to Set: zero, the minimum and above it
Durations == {0, minimumAllowedCacheDuration, cacheDuration}

\* the payload handed to Set together with a duration
Payload(exp) ==
    IF exp > 0
    THEN [statusCode |-> 201, cType |-> "text/html", body |-> <<"y">>]
    ELSE [statusCode |-> 0, cType |-> "", body |-> <<"x">>]

\* a goroutine calls Set
CallSet(w, key, p, exp) ==
    /\ tasks[w].pc = "none"
    /\ tasks' = [tasks EXCEPT ![w] = SetTask(key, p.statusCode, p.cType, p.body, exp)]
    /\ UNCHANGED <<now, cache, gcOn, sweep, expiration, workers, lastSet>>

\* a goroutine calls Get
CallGet(w, key) ==
    /\ workers[w].pc \in {"idle", "done"}
    /\ workers' = [workers EXCEPT ![w] =
          [IdleWorker EXCEPT !.pc = "getRead", !.kind = "get", !.key = key]]
    /\ UNCHANGED <<now, cache, gcOn, sweep, expiration, tasks, lastSet>>

\* Remove(key), under the exclusive lock
Remove(key) ==
    /\ cache' = CacheDelete(cache, key)
    /\ lastSet' = Disturb(lastSet, {key})
    /\ UNCHANGED <<now, gcOn, sweep, expiration, workers, tasks>>

\* Clear(), under the exclusive lock
Clear ==
    /\ cache' = CacheClear(cache)
    /\ lastSet' = Disturb(lastSet, DOMAIN lastSet)
    /\ UNCHANGED <<now, gcOn, sweep, expiration, workers, tasks>>

NextStore ==
    \/ Tick
    \/ GCTick
    \/ GCSweep
    \/ \E key \in StoreKeys, exp \in Durations :
          CallSet("w2", key, Payload(exp), exp)
    \/ \E key \in StoreKeys : CallGet("w1", key)
    \/ \E key \in StoreKeys : Remove(key)
    \/ Clear
    \/ \E w \in Workers : GetRead(w)
    \/ \E w \in Workers : GetCheck(w)
    \/ \E w \in Workers : GetRemove(w)
    \/ \E w \in Workers : SetBegin(w)
    \/ \E w \in Workers : SetCommit(w)

SpecStore == Init /\ [][NextStore]_vars

\* requests are served one after the other by one goroutine; the detached
\* Sets, the sweep and the clock run beside it
Next ==
    \/ Tick
    \/ GCTick
    \/ GCSweep
    \/ \E req \in ServiceRequests : CacheServe("w1", req)
    \/ \E w \in Workers : GetRead(w)
    \/ \E w \in Workers : GetCheck(w)
    \/ \E w \in Workers : GetRemove(w)
    \/ \E w \in Workers : Origin(w)
    \/ \E w \in Workers : SetBegin(w)
    \/ \E w \in Workers : SetCommit(w)

Spec == Init /\ [][Next]_vars

\* one request for each path through the cached handler: persisted or
\* served from the store, turned away by a pre-rule, answered with an empty
\* body, refused by a post-rule
PathRequests ==
    {r \in Requests : \/ r.Path \in {"/empty", "/invalid2"}
                      \/ r.Method = "GET" /\ r.Path = "/" /\ r.Header.MaxAge = ""}

\* these requests served one after the other, entries expiring in between
NextPaths ==
    \/ Tick
    \/ \E req \in PathRequests : Serve("w1", req)
    \/ Response("w1")
    \/ OriginValid("w1")

\* the handler has an entry of its own and no store: no sweep runs
InitHandler == Init /\ gcOn = <<>>

SpecPaths == InitHandler /\ [][NextPaths]_vars

\* the goroutine that serves a request keeps running
FairSpecPaths ==
    /\ SpecPaths
    /\ WF_vars(Response("w1") \/ OriginValid("w1"))

\* the requests of every route go through the handler with rules, one after
\* the other, entries expiring in between
NextHandler ==
    \/ Tick
    \/ \E req \in Requests : Serve("w1", req)
    \/ Response("w1")
    \/ OriginValid("w1")

SpecHandler == InitHandler /\ [][NextHandler]_vars

\* the requests whose responses are persisted
PersistRequests == {r \in Requests : r.Path = "/" /\ r.Header = NoHeaders}

\* the same run with the persisted requests only
NextPersist ==
    \/ Tick
    \/ GCTick
    \/ GCSweep
    \/ \E req \in PersistRequests : CacheServe("w1", req)
    \/ \E w \in Workers : GetRead(w)
    \/ \E w \in Workers : GetCheck(w)
    \/ \E w \in Workers : GetRemove(w)
    \/ \E w \in Workers : Origin(w)
    \/ \E w \in Workers : SetBegin(w)
    \/ \E w \in Workers : SetCommit(w)

\* the detached Sets are scheduled fairly and the exclusive lock is granted
\* to each waiting goroutine
FairSpec ==
    /\ Init /\ [][NextPersist]_vars
    /\ \A w \in Workers : WF_vars(SetBegin(w)) /\ WF_vars(SetCommit(w))

\* requests for one key arrive in parallel: every goroutine of the server
\* runs the cached handler on its own, for the first request it is given
NextParallel ==
    \/ Tick
    \/ GCTick
    \/ GCSweep
    \/ \E w \in Workers, req \in PersistRequests :
          workers[w].pc = "idle" /\ CacheServe(w, req)
    \/ \E w \in Workers : GetRead(w)
    \/ \E w \in Workers : GetCheck(w)
    \/ \E w \in Workers : GetRemove(w)
    \/ \E w \in Workers : Origin(w)
    \/ \E w \in Workers : SetBegin(w)
    \/ \E w \in Workers : SetCommit(w)

SpecParallel == Init /\ [][NextParallel]_vars

\* the durations handed to Set by concurrent callers: negative, zero, the
\* minimum and above it
TTLs == {-1, 0, minimumAllowedCacheDuration, cacheDuration}

\* concurrent goroutines call Set on one key
NextSets ==
    \/ Tick
    \/ \E w \in Workers, key \in StoreKeys, exp \in TTLs :
          CallSet(w, key, Payload(exp), exp)
    \/ \E w \in Workers : SetBegin(w)
    \/ \E w \in Workers : SetCommit(w)

SpecSets == Init /\ [][NextSets]_vars

(***************************************************************************)
(* The fasthttp handler.  The body it hands to Set is the slice returned   *)
(* by reqCtx.Response.Body(): it points into the response buffer of the    *)
(* request context, which the server gives to later requests.  A body is   *)
(* here the buffer it points into together with the bytes seen through it. *)
(***************************************************************************)
\* the response buffers the server's pool hands to request contexts
Buffers == {"b1", "b2"}

\* the key is the request URI: the path and the query
getCacheKeyFasthttp(req) ==
    IF req.RawQuery = "" THEN req.Path ELSE req.Path \o "?" \o req.RawQuery

getResponseContentTypeFasthttp(sink) == validateContentType(sink.Header.ContentType)

\* the response of a request context is written into buffer b: the stored
\* entries and the bodies handed to Set that point into b change with it
WriteBuffer(c, b, contents) ==
    [k \in DOMAIN c |-> [c[k] EXCEPT !.Body = Seen(@, b, contents)]]

WriteBufferTasks(ts, b, contents) ==
    [x \in DOMAIN ts |->
        IF ts[x].pc = "none" THEN ts[x]
        ELSE [ts[x] EXCEPT !.body = Seen(@, b, contents),
                           !.e = IF ts[x].pc = "ready"
                                 THEN [@ EXCEPT !.Body = Seen(@, b, contents)]
                                 ELSE @]]

\* the handler is entered by the goroutine of a connection
ServeFasthttp(w, req) ==
    /\ workers[w].pc \in {"idle", "served"}
    /\ FreeSlots(tasks) # {}
    /\ workers' = [workers EXCEPT ![w] =
          [IdleWorker EXCEPT !.pc = "getRead", !.kind = "fasthttp", !.req = req,
                             !.key = getCacheKeyFasthttp(req)]]
    /\ UNCHANGED <<now, cache, gcOn, sweep, expiration, tasks, lastSet>>

\* Get returned an entry: its content type, status code and body are written
\* to the response of the request context
HitFasthttp(w) ==
    LET me == workers[w]
        v == [me.v EXCEPT !.Body = @.bytes]
    IN  /\ me.pc = "done" /\ me.kind = "fasthttp" /\ me.path = "hit"
        /\ \E b \in Buffers :
              /\ cache' = WriteBuffer(cache, b, v.Body)
              /\ tasks' = WriteBufferTasks(tasks, b, v.Body)
        /\ workers' = [workers EXCEPT ![w] =
              [me EXCEPT !.pc = "served", !.sink = WriteEntry(me.sink, v)]]
        /\ UNCHANGED <<now, gcOn, sweep, expiration, lastSet>>

\* Get returned nil: the origin handler writes the response of the request
\* context and a non-empty body is handed, as the slice it is, to a detached
\* Store.Set
OriginFasthttp(w) ==
    LET me == workers[w]
        out == ServeDirect(OriginCalls(me.req), me.sink)
        keep == Len(out.Body) # 0
        exp == PersistExpiration(expiration[me.req.Path], me.req)
        slot == CHOOSE x \in FreeSlots(tasks) : TRUE
    IN  /\ me.pc = "done" /\ me.kind = "fasthttp" /\ me.path = "miss"
        /\ \E b \in Buffers :
              /\ cache' = WriteBuffer(cache, b, out.Body)
              /\ tasks' =
                    IF keep
                    THEN [WriteBufferTasks(tasks, b, out.Body) EXCEPT ![slot] =
                            SetTask(me.key, out.StatusCode,
                                    getResponseContentTypeFasthttp(out),
                                    [buf |-> b, bytes |-> out.Body], exp)]
                    ELSE WriteBufferTasks(tasks, b, out.Body)
        /\ workers' = [workers EXCEPT ![w] =
              [me EXCEPT !.pc = "served", !.sink = out,
                         !.originCalls = @ + 1,
                         !.storeOps = IF keep THEN @ + 1 ELSE @,
                         !.sched = IF keep THEN @ + 1 ELSE @,
                         !.path = IF keep THEN "persist" ELSE "invalid"]]
        /\ expiration' = IF keep
                         THEN [expiration EXCEPT ![me.req.Path] = exp]
                         ELSE expiration
        /\ UNCHANGED <<now, gcOn, sweep, lastSet>>

\* the requests of one connection are served one after the other and the
\* detached Sets run beside them, all within the lifetime of the entries
NextFasthttp ==
    \/ \E req \in PersistRequests : ServeFasthttp("w1", req)
    \/ \E w \in Workers : GetRead(w)
    \/ \E w \in Workers : GetCheck(w)
    \/ \E w \in Workers : HitFasthttp(w)
    \/ \E w \in Workers : OriginFasthttp(w)
    \/ \E w \in Workers : SetBegin(w)
    \/ \E w \in Workers : SetCommit(w)

SpecFasthttp == Init /\ [][NextFasthttp]_vars

\* the requests of the two persisting routes
RouteRequests == {Req("GET", "/", "", NoHeaders)} \cup HeaderRequests

\* requests for the two routes are served one after the other; the detached
\* Sets, the sweep and the clock run beside them
NextRoutes ==
    \/ Tick
    \/ GCTick
    \/ GCSweep
    \/ \E req \in RouteRequests : CacheServe("w1", req)
    \/ \E w \in Workers : GetRead(w)
    \/ \E w \in Workers : GetCheck(w)
    \/ \E w \in Workers : GetRemove(w)
    \/ \E w \in Workers : Origin(w)
    \/ \E w \in Workers : SetBegin(w)
    \/ \E w \in Workers : SetCommit(w)

SpecRoutes == Init /\ [][NextRoutes]_vars

(***************************************************************************)
(* The store with its lock: every operation of memoryStore as the steps it *)
(* takes to acquire s.mu, touch the map and release s.mu.  A goroutine     *)
(* holds the lock from the step that acquires it to the step that releases *)
(* it.                                                                     *)
(***************************************************************************)
\* the goroutines inside s.mu.Lock() ... s.mu.Unlock()
Exclusive ==
    {<<"caller", w>> : w \in {x \in Workers : workers[x].pc \in {"locked", "unlock"}}}
    \cup {<<"set", w>> : w \in {x \in Workers : tasks[x].pc \in {"locked", "unlock"}}}

\* a Get that keeps the shared lock until it returns, its call of Remove
\* included
SharedUntilReturn ==
    {w \in Workers : workers[w].pc \in {"rlocked", "runlock", "getCheck", "getRemove"}}

\* the goroutines inside s.mu.RLock() ... s.mu.RUnlock()
Shared == {w \in Workers : workers[w].pc \in {"rlocked", "runlock"}}

\* an RLock that does not wait for the goroutine holding the exclusive lock
CanRLockAlways == TRUE

\* sync.RWMutex: RLock is granted while no goroutine holds the exclusive lock
CanRLock == Exclusive = {}

\* sync.RWMutex: Lock is granted while no goroutine holds the lock
CanLock == Exclusive = {} /\ Shared = {}

\* Get is called
GetEnter(w, key) ==
    /\ workers[w].pc \in {"idle", "done"}
    /\ workers' = [workers EXCEPT ![w] =
          [IdleWorker EXCEPT !.pc = "rlock", !.kind = "get", !.key = key]]
    /\ UNCHANGED <<now, cache, gcOn, sweep, expiration, tasks, lastSet>>

\* Get: s.mu.RLock()
GetRLock(w) ==
    /\ workers[w].pc = "rlock"
    /\ CanRLock
    /\ workers' = [workers EXCEPT ![w] = [@ EXCEPT !.pc = "rlocked"]]
    /\ UNCHANGED <<now, cache, gcOn, sweep, expiration, tasks, lastSet>>

\* Get: v, ok := s.cache[key]
GetLookup(w) ==
    LET me == workers[w]
    IN  /\ me.pc = "rlocked"
        /\ workers' = [workers EXCEPT ![w] =
              IF me.key \in DOMAIN cache
              THEN [me EXCEPT !.pc = "runlock", !.v = cache[me.key], !.path = "found",
                              !.storeOps = @ + 1]
              ELSE [me EXCEPT !.pc = "runlock", !.path = "miss", !.storeOps = @ + 1]]
        /\ UNCHANGED <<now, cache, gcOn, sweep, expiration, tasks, lastSet>>

\* Get: s.mu.RUnlock(), on either branch
GetRUnlock(w) ==
    LET me == workers[w]
    IN  /\ me.pc = "runlock"
        /\ workers' = [workers EXCEPT ![w] =
              [me EXCEPT !.pc = IF me.path = "found" THEN "getCheck" ELSE "done"]]
        /\ UNCHANGED <<now, cache, gcOn, sweep, expiration, tasks, lastSet>>

\* Remove is called
RemoveEnter(w, key) ==
    /\ workers[w].pc \in {"idle", "done"}
    /\ workers' = [workers EXCEPT ![w] =
          [IdleWorker EXCEPT !.pc = "lock", !.kind = "remove", !.key = key]]
    /\ UNCHANGED <<now, cache, gcOn, sweep, expiration, tasks, lastSet>>

\* Clear is called
ClearEnter(w) ==
    /\ workers[w].pc \in {"idle", "done"}
    /\ workers' = [workers EXCEPT ![w] = [IdleWorker EXCEPT !.pc = "lock", !.kind = "clear"]]
    /\ UNCHANGED <<now, cache, gcOn, sweep, expiration, tasks, lastSet>>

\* the sweep goroutine receives a tick and reads the clock
SweepTick(w) ==
    /\ sweep.pc = "wait"
    /\ now >= sweep.next
    /\ \A v \in Workers : workers[v].kind = "gc" => workers[v].pc \in {"idle", "done"}
    /\ workers[w].pc \in {"idle", "done"}
    /\ workers' = [workers EXCEPT ![w] =
          [IdleWorker EXCEPT !.pc = "lock", !.kind = "gc", !.at = now]]
    /\ sweep' = [sweep EXCEPT !.next = NextTick(sweep.next, gcOn[1], now)]
    /\ UNCHANGED <<now, cache, gcOn, expiration, tasks, lastSet>>

\* s.mu.Lock() of Remove (also when Get calls it), Clear and the sweep
Lock(w) ==
    /\ workers[w].pc \in {"lock", "getRemove"}
    /\ CanLock
    /\ workers' = [workers EXCEPT ![w] = [@ EXCEPT !.pc = "locked"]]
    /\ UNCHANGED <<now, cache, gcOn, sweep, expiration, tasks, lastSet>>

\* Remove: delete(s.cache, key)
RemoveDelete(w) ==
    LET me == workers[w]
    IN  /\ me.pc = "locked" /\ me.kind \in {"remove", "get"}
        /\ cache' = CacheDelete(cache, me.key)
        /\ lastSet' = IF me.kind = "remove" THEN Disturb(lastSet, {me.key}) ELSE lastSet
        /\ workers' = [workers EXCEPT ![w] = [me EXCEPT !.pc = "unlock", !.path = "miss"]]
        /\ UNCHANGED <<now, gcOn, sweep, expiration, tasks>>

\* Clear: every key is deleted
ClearDelete(w) ==
    /\ workers[w].pc = "locked" /\ workers[w].kind = "clear"
    /\ cache' = CacheClear(cache)
    /\ lastSet' = Disturb(lastSet, DOMAIN lastSet)
    /\ workers' = [workers EXCEPT ![w] = [@ EXCEPT !.pc = "unlock"]]
    /\ UNCHANGED <<now, gcOn, sweep, expiration, tasks>>

\* the sweep: every entry that the clock read at the tick is after is deleted
SweepDelete(w) ==
    /\ workers[w].pc = "locked" /\ workers[w].kind = "gc"
    /\ cache' = Sweep(cache, workers[w].at)
    /\ workers' = [workers EXCEPT ![w] = [@ EXCEPT !.pc = "unlock"]]
    /\ UNCHANGED <<now, gcOn, sweep, expiration, tasks, lastSet>>

\* s.mu.Unlock() of Remove, Clear and the sweep
Unlock(w) ==
    /\ workers[w].pc = "unlock"
    /\ workers' = [workers EXCEPT ![w] = [@ EXCEPT !.pc = "done"]]
    /\ UNCHANGED <<now, cache, gcOn, sweep, expiration, tasks, lastSet>>

\* Set: s.mu.Lock()
SetLock(w) ==
    /\ tasks[w].pc = "ready"
    /\ CanLock
    /\ tasks' = [tasks EXCEPT ![w] = [@ EXCEPT !.pc = "locked"]]
    /\ UNCHANGED <<now, cache, gcOn, sweep, expiration, workers, lastSet>>

\* Set: s.cache[key] = e
SetStore(w) ==
    LET t == tasks[w]
    IN  /\ t.pc = "locked"
        /\ cache' = CachePut(cache, t.key, t.e)
        /\ lastSet' = CachePut(lastSet, t.key,
                               [at |-> t.at, ttl |-> t.expiration, ok |-> TRUE])
        /\ tasks' = [tasks EXCEPT ![w] = [t EXCEPT !.pc = "unlock"]]
        /\ UNCHANGED <<now, gcOn, sweep, expiration, workers>>

\* Set: s.mu.Unlock()
SetUnlock(w) ==
    /\ tasks[w].pc = "unlock"
    /\ tasks' = [tasks EXCEPT ![w] = NoTask]
    /\ UNCHANGED <<now, cache, gcOn, sweep, expiration, workers, lastSet>>

\* Get, Remove, Clear and the ticks of the sweep take their turns one after
\* the other; two goroutines calling Set run beside them
NextLock ==
    \/ Tick
    \/ \E key \in StoreKeys : GetEnter("w1", key)
    \/ \E key \in StoreKeys : RemoveEnter("w1", key)
    \/ ClearEnter("w1")
    \/ SweepTick("w1")
    \/ \E w \in Workers, key \in StoreKeys :
          CallSet(w, key, Payload(cacheDuration), cacheDuration)
    \/ \E w \in Workers : GetRLock(w)
    \/ \E w \in Workers : GetLookup(w)
    \/ \E w \in Workers : GetRUnlock(w)
    \/ \E w \in Workers : GetCheck(w)
    \/ \E w \in Workers : Lock(w)
    \/ \E w \in Workers : RemoveDelete(w)
    \/ \E w \in Workers : ClearDelete(w)
    \/ \E w \in Workers : SweepDelete(w)
    \/ \E w \in Workers : Unlock(w)
    \/ \E w \in Workers : SetBegin(w)
    \/ \E w \in Workers : SetLock(w)
    \/ \E w \in Workers : SetStore(w)
    \/ \E w \in Workers : SetUnlock(w)

SpecLock == Init /\ [][NextLock]_vars

\* a stretch of time long enough for every entry stored so far to expire
Elapse ==
    /\ now = 0
    /\ now' = MaxTime
    /\ UNCHANGED <<cache, gcOn, sweep, expiration, workers, tasks, lastSet>>

\* the same steps with two goroutines free to call Get, Remove and Clear or
\* to run a tick of the sweep, so that any two of the operations run at
\* once, beside a goroutine calling Set; the clock is read before and after
\* one stretch of time
NextMutex ==
    \/ Elapse
    \/ \E w \in Workers, key \in StoreKeys : GetEnter(w, key)
    \/ \E w \in Workers, key \in StoreKeys : RemoveEnter(w, key)
    \/ \E w \in Workers : ClearEnter(w)
    \/ \E w \in Workers : SweepTick(w)
    \/ \E key \in StoreKeys :
          CallSet("w2", key, Payload(cacheDuration), cacheDuration)
    \/ \E w \in Workers : GetRLock(w)
    \/ \E w \in Workers : GetLookup(w)
    \/ \E w \in Workers : GetRUnlock(w)
    \/ \E w \in Workers : GetCheck(w)
    \/ \E w \in Workers : Lock(w)
    \/ \E w \in Workers : RemoveDelete(w)
    \/ \E w \in Workers : ClearDelete(w)
    \/ \E w \in Workers : SweepDelete(w)
    \/ \E w \in Workers : Unlock(w)
    \/ \E w \in Workers : SetBegin(w)
    \/ \E w \in Workers : SetLock(w)
    \/ \E w \in Workers : SetStore(w)
    \/ \E w \in Workers : SetUnlock(w)

SpecMutex == Init /\ [][NextMutex]_vars

\* every goroutine keeps running, and sync.RWMutex grants a lock that stays
\* free to a goroutine that waits for it
FairSpecMutex ==
    /\ SpecMutex
    /\ \A w \in Workers :
          /\ WF_vars(GetRLock(w) \/ GetLookup(w) \/ GetRUnlock(w) \/ GetCheck(w)
                     \/ Lock(w) \/ RemoveDelete(w) \/ ClearDelete(w)
                     \/ SweepDelete(w) \/ Unlock(w))
          /\ WF_vars(SetBegin(w) \/ SetLock(w) \/ SetStore(w) \/ SetUnlock(w))

\* requests for the route wrapped with the minimum, each with its
\* Cache-Control header, are served by two goroutines at once; the detached
\* Sets run beside them and the clock passes every expiry once
NextTTL ==
    \/ Elapse
    \/ \E w \in Workers, req \in HeaderRequests : CacheServe(w, req)
    \/ \E w \in Workers : GetRead(w)
    \/ \E w \in Workers : GetCheck(w)
    \/ \E w \in Workers : GetRemove(w)
    \/ \E w \in Workers : Origin(w)
    \/ \E w \in Workers : SetBegin(w)
    \/ \E w \in Workers : SetCommit(w)

SpecTTL == Init /\ [][NextTTL]_vars

\* the number of calls of startGC that a run counts
MaxCalls == 3

\* startGC is called on the store once more, with the given interval
CallStartGC(w, gcDuration) ==
    /\ workers[w].pc \in {"idle", "done"}
    /\ workers[w].calls < MaxCalls
    /\ gcOn' = startGC(gcOn, gcDuration)
    /\ sweep' = IF gcOn = <<>> THEN StartSweep(gcOn', now) ELSE sweep
    /\ workers' = [workers EXCEPT ![w] =
          [IdleWorker EXCEPT !.pc = "done", !.kind = "startGC",
                             !.gcDuration = gcDuration,
                             !.calls = workers[w].calls + 1]]
    /\ UNCHANGED <<now, cache, expiration, tasks, lastSet>>

\* the store with its sweep: startGC is called again and again while a
\* goroutine calls Set
NextGC ==
    \/ Tick
    \/ GCTick
    \/ GCSweep
    \/ \E d \in {minimumAllowedCacheDuration, gcInterval} : CallStartGC("w1", d)
    \/ \E key \in StoreKeys, exp \in Durations :
          CallSet("w2", key, Payload(exp), exp)
    \/ \E w \in Workers : SetBegin(w)
    \/ \E w \in Workers : SetCommit(w)

SpecGC == Init /\ [][NextGC]_vars

\* time goes on and the sweep goroutine, once started, gets its ticks
FairSpecGC == SpecGC /\ WF_vars(Tick) /\ WF_vars(GCTick) /\ WF_vars(GCSweep)

(***************************************************************************)
(* Invalidate and Clear of the service, called beside the cached handlers. *)
(***************************************************************************)
\* Service.Invalidate: the key of the request is computed
Invalidate(w, req) ==
    /\ workers[w].pc \in {"idle", "done"}
    /\ workers' = [workers EXCEPT ![w] =
          [IdleWorker EXCEPT !.pc = "remove", !.kind = "invalidate", !.req = req,
                             !.key = getCacheKey(req)]]
    /\ UNCHANGED <<now, cache, gcOn, sweep, expiration, tasks, lastSet>>

\* Service.Invalidate: s.store.Remove(key), under the exclusive lock
InvalidateRemove(w) ==
    LET me == workers[w]
    IN  /\ me.pc = "remove"
        /\ cache' = CacheDelete(cache, me.key)
        /\ lastSet' = Disturb(lastSet, {me.key})
        /\ tasks' = MarkStale(tasks, {me.key})
        /\ workers' = [workers EXCEPT ![w] =
              [me EXCEPT !.pc = "done", !.storeOps = @ + 1,
                         !.path = IF me.key \in DOMAIN cache THEN "removed"
                                  ELSE "absent"]]
        /\ UNCHANGED <<now, gcOn, sweep, expiration>>

\* Service.Clear is called; calls tells a call that follows another call of
\* Clear by the same goroutine from a first one
ClearCall(w) ==
    /\ workers[w].pc \in {"idle", "done"}
    /\ workers' = [workers EXCEPT ![w] = [IdleWorker EXCEPT !.pc = "clear", !.kind = "clear",
                             !.calls = IF workers[w].kind = "clear" THEN 2 ELSE 1]]
    /\ UNCHANGED <<now, cache, gcOn, sweep, expiration, tasks, lastSet>>

\* Service.Clear: s.store.Clear(), under the exclusive lock
ClearStore(w) ==
    LET me == workers[w]
    IN  /\ me.pc = "clear"
        /\ cache' = CacheClear(cache)
        /\ lastSet' = Disturb(lastSet, DOMAIN lastSet)
        /\ tasks' = MarkStale(tasks, {tasks[x].key : x \in DOMAIN tasks})
        /\ workers' = [workers EXCEPT ![w] =
              [me EXCEPT !.pc = "done", !.storeOps = @ + 1,
                         !.path = IF cache = <<>> THEN "absent" ELSE "removed"]]
        /\ UNCHANGED <<now, gcOn, sweep, expiration>>

\* the requests Invalidate is called with: one of each route and one that
\* the pre-rules turn away
InvalidateRequests ==
    { Req("GET", "/", "", [NoHeaders EXCEPT !.Authorization = "basic"]),
      Req("GET", "/ttl", "", [NoHeaders EXCEPT !.CacheControl =
                                 <<"p", "u", "b", "l", "i", "c">>]) }

\* the requests served beside them
InvalidatedRoutes ==
    { Req("GET", "/", "", NoHeaders),
      Req("GET", "/ttl", "", [NoHeaders EXCEPT !.CacheControl =
                                 <<"p", "u", "b", "l", "i", "c">>]) }

\* one goroutine serves the two routes, another calls Invalidate and Clear,
\* all within the lifetime of the entries
NextInvalidate ==
    \/ \E req \in InvalidatedRoutes : CacheServe("w1", req)
    \/ \E req \in InvalidateRequests : Invalidate("w2", req)
    \/ ClearCall("w2")
    \/ \E w \in Workers : InvalidateRemove(w)
    \/ \E w \in Workers : ClearStore(w)
    \/ \E w \in Workers : GetRead(w)
    \/ \E w \in Workers : GetCheck(w)
    \/ \E w \in Workers : Origin(w)
    \/ \E w \in Workers : SetBegin(w)
    \/ \E w \in Workers : SetCommit(w)

SpecInvalidate == Init /\ [][NextInvalidate]_vars

(***************************************************************************)
(* The service as a remote cache server: a POST stores the request's body  *)
(* under the key, duration, status code and content type of the URL's      *)
(* parameters.                                                             *)
(***************************************************************************)
\* a POST to the server: the URL parameters, the Cache-Control header and
\* the body; seconds is 0 when the duration parameter is absent or malformed
PostReq(key, seconds, statusCode, cType, cacheControl, body) ==
    [key |-> key, seconds |-> seconds, statusCode |-> statusCode, cType |-> cType,
     Header |-> [NoHeaders EXCEPT !.CacheControl = cacheControl], Body |-> body]

PostRequests ==
    { PostReq("/", 0, 0, "", <<>>, <<"p">>),
      PostReq("/", cacheDuration, 404, "text/html", <<>>, <<"p">>),
      PostReq("/", 0, 0, "", <<"m", "a", "x", "a", "g", "e", "=", "3">>, <<"p">>),
      PostReq("/", 0, 0, "", maxAgeExp \o [d \in 1..20 |-> "9"], <<"p">>),
      PostReq("/", cacheDuration, 404, "text/html", <<>>, <<>>),
      PostReq("", cacheDuration, 404, "text/html", <<>>, <<"p">>) }

\* the duration of a POST in seconds: the URL parameter, else the max-age of
\* the request, else the minimum
PostSeconds(q) ==
    LET given == IF q.seconds <= 0 THEN getMaxAge(q) ELSE q.seconds
    IN  IF given <= 0 THEN minimumAllowedCacheDuration ELSE given

\* ServeHTTP, method POST: a request without key or body fails; otherwise
\* the validated values are handed to Set, on the goroutine of the request
ServePost(w, q) ==
    /\ workers[w].pc \in {"idle", "done"}
    /\ tasks[w].pc = "none"
    /\ Cardinality(FreeSlots(tasks)) > Cardinality(InFlight(workers))
    /\ IF q.key = "" \/ Len(q.Body) = 0
       THEN /\ workers' = [workers EXCEPT ![w] =
                  [IdleWorker EXCEPT !.pc = "done", !.kind = "post", !.key = q.key,
                                     !.req = q,
                                     !.sink = SinkWriteHeader(NewSink, failStatus)]]
            /\ UNCHANGED tasks
       ELSE /\ workers' = [workers EXCEPT ![w] =
                  [IdleWorker EXCEPT !.pc = "set", !.kind = "post", !.key = q.key,
                                     !.req = q, !.storeOps = 1]]
            /\ tasks' = [tasks EXCEPT ![w] =
                  SetTask(q.key, validateStatusCode(q.statusCode),
                          validateContentType(q.cType), q.Body,
                          validateCacheDuration(PostSeconds(q)))]
    /\ UNCHANGED <<now, cache, gcOn, sweep, expiration, lastSet>>

\* ServeHTTP, method POST: Set has returned and the server answers 200
PostReturn(w) ==
    /\ workers[w].pc = "set"
    /\ tasks[w].pc = "none"
    /\ workers' = [workers EXCEPT ![w] =
          [@ EXCEPT !.pc = "done", !.sink = SinkWriteHeader(@, successStatus)]]
    /\ UNCHANGED <<now, cache, gcOn, sweep, expiration, tasks, lastSet>>

\* one goroutine serves, one after the other, requests to a cached handler
\* and POSTs to the server; the detached Sets, the sweep and the clock run
\* beside it
NextServer ==
    \/ Tick
    \/ GCTick
    \/ GCSweep
    \/ CacheServe("w1", Req("GET", "/", "", NoHeaders))
    \/ \E q \in PostRequests : ServePost("w1", q)
    \/ PostReturn("w1")
    \/ \E w \in Workers : GetRead(w)
    \/ \E w \in Workers : GetCheck(w)
    \/ \E w \in Workers : GetRemove(w)
    \/ \E w \in Workers : Origin(w)
    \/ \E w \in Workers : SetBegin(w)
    \/ \E w \in Workers : SetCommit(w)

SpecServer == Init /\ [][NextServer]_vars

(***************************************************************************)
(* The service as a remote cache server, all verbs: Service.ServeHTTP      *)
(* answers GET from the store, stores the body of a POST, removes the key  *)
(* of a DELETE and fails every other request.                              *)
(***************************************************************************)
\* a request to the server: the verb beside the URL parameters, the
\* Cache-Control header and the body
ServerReq(method, q) == [Method |-> method] @@ q

\* the requests of the model: every verb with and without cache_key, and
\* POSTs for two keys with the parameters given, absent, or left to a
\* Cache-Control header in the standard spelling or in that of the expression
RemoteRequests ==
    { ServerReq("GET", PostReq("k1", 0, 0, "", <<>>, <<>>)),
      ServerReq("GET", PostReq("k2", 0, 0, "", <<>>, <<>>)),
      ServerReq("GET", PostReq("", 0, 0, "", <<>>, <<>>)),
      ServerReq("DELETE", PostReq("k1", 0, 0, "", <<>>, <<>>)),
      ServerReq("DELETE", PostReq("", 0, 0, "", <<>>, <<>>)),
      ServerReq("PUT", PostReq("k1", cacheDuration, 0, "", <<>>, <<"z">>)),
      ServerReq("POST", PostReq("k1", 0, 0, "", <<>>, <<"x">>)),
      ServerReq("POST", PostReq("k1", cacheDuration, 404, "text/html", <<>>, <<"x">>)),
      ServerReq("POST", PostReq("k1", 0, 0, "",
                                <<"m", "a", "x", "-", "a", "g", "e", "=", "3">>, <<"x">>)),
      ServerReq("POST", PostReq("k1", 0, 0, "",
                                <<"m", "a", "x", "a", "g", "e", "=", "3">>, <<"x">>)),
      ServerReq("POST", PostReq("k1", cacheDuration, 404, "text/html", <<>>, <<>>)),
      ServerReq("POST", PostReq("", cacheDuration, 404, "text/html", <<>>, <<"z">>)),
      ServerReq("POST", PostReq("k2", 0, 0, "", <<>>, <<"y">>)) }

\* ServeHTTP, method GET: a request without key fails; otherwise the store
\* is asked for the key
ServeGet(w, q) ==
    /\ workers[w].pc \in {"idle", "done"}
    /\ workers' = [workers EXCEPT ![w] =
          IF q.key = ""
          THEN [IdleWorker EXCEPT !.pc = "done", !.kind = "serveGet", !.req = q,
                                  !.sink = SinkWriteHeader(NewSink, failStatus)]
          ELSE [IdleWorker EXCEPT !.pc = "getRead", !.kind = "serveGet", !.req = q,
                                  !.key = q.key]]
    /\ UNCHANGED <<now, cache, gcOn, sweep, expiration, tasks, lastSet>>

\* a GET that is answered with the failure status whatever Get returned
ServeGetReplyFail(w) ==
    /\ workers[w].pc = "reply"
    /\ workers' = [workers EXCEPT ![w] =
          [@ EXCEPT !.pc = "done", !.sink = SinkWriteHeader(@, failStatus)]]
    /\ UNCHANGED <<now, cache, gcOn, sweep, expiration, tasks, lastSet>>

\* ServeHTTP, method GET: the entry Get returned is written, content type,
\* status code and body; without an entry the server answers 400
ServeGetReply(w) ==
    LET me == workers[w]
    IN  /\ me.pc = "reply"
        /\ workers' = [workers EXCEPT ![w] =
              [me EXCEPT !.pc = "done",
                         !.sink = IF me.path = "hit" THEN WriteEntry(me.sink, me.v)
                                  ELSE SinkWriteHeader(me.sink, failStatus)]]
        /\ UNCHANGED <<now, cache, gcOn, sweep, expiration, tasks, lastSet>>

\* a DELETE that fails for a key the store does not hold
ServeDeleteStrict(w, q) ==
    /\ workers[w].pc \in {"idle", "done"}
    /\ workers' = [workers EXCEPT ![w] =
          IF q.key \notin DOMAIN cache
          THEN [IdleWorker EXCEPT !.pc = "done", !.kind = "delete", !.req = q,
                                  !.key = q.key,
                                  !.sink = SinkWriteHeader(NewSink, failStatus)]
          ELSE [IdleWorker EXCEPT !.pc = "remove", !.kind = "delete", !.req = q,
                                  !.key = q.key]]
    /\ UNCHANGED <<now, cache, gcOn, sweep, expiration, tasks, lastSet>>

\* ServeHTTP, method DELETE: a request without key fails; otherwise the key
\* is removed
ServeDelete(w, q) ==
    /\ workers[w].pc \in {"idle", "done"}
    /\ workers' = [workers EXCEPT ![w] =
          IF q.key = ""
          THEN [IdleWorker EXCEPT !.pc = "done", !.kind = "delete", !.req = q,
                                  !.sink = SinkWriteHeader(NewSink, failStatus)]
          ELSE [IdleWorker EXCEPT !.pc = "remove", !.kind = "delete", !.req = q,
                                  !.key = q.key]]
    /\ UNCHANGED <<now, cache, gcOn, sweep, expiration, tasks, lastSet>>

\* ServeHTTP, method DELETE: s.store.Remove(key) deletes the key under the
\* exclusive lock and returns with the lock released
ServeDeleteRemove(w) ==
    LET me == workers[w]
    IN  /\ me.pc = "remove" /\ me.kind = "delete"
        /\ cache' = CacheDelete(cache, me.key)
        /\ lastSet' = Disturb(lastSet, {me.key})
        /\ workers' = [workers EXCEPT ![w] =
              [me EXCEPT !.pc = "deleted", !.storeOps = @ + 1,
                         !.path = IF me.key \in DOMAIN cache THEN "removed"
                                  ELSE "absent"]]
        /\ UNCHANGED <<now, gcOn, sweep, expiration, tasks>>

\* ServeHTTP, method DELETE: after Remove has returned the server answers
\* res.WriteHeader(successStatus)
ServeDeleteReply(w) ==
    LET me == workers[w]
    IN  /\ me.pc = "deleted" /\ me.kind = "delete"
        /\ workers' = [workers EXCEPT ![w] =
              [me EXCEPT !.pc = "done",
                         !.sink = SinkWriteHeader(@, successStatus)]]
        /\ UNCHANGED <<now, cache, gcOn, sweep, expiration, tasks, lastSet>>

\* ServeHTTP, any other verb: the failure status, with or without key
ServeOther(w, q) ==
    /\ workers[w].pc \in {"idle", "done"}
    /\ workers' = [workers EXCEPT ![w] =
          [IdleWorker EXCEPT !.pc = "done", !.kind = "verb", !.req = q, !.key = q.key,
                             !.sink = SinkWriteHeader(NewSink, failStatus)]]
    /\ UNCHANGED <<now, cache, gcOn, sweep, expiration, tasks, lastSet>>

\* ServeHTTP: the verb of the request selects the branch
ServeHTTP(w, q) ==
    IF q.Method = "GET" THEN ServeGet(w, q)
    ELSE IF q.Method = "POST" THEN ServePost(w, q)
    ELSE IF q.Method = "DELETE" THEN ServeDelete(w, q)
    ELSE ServeOther(w, q)

\* the server answers the requests of one client one after the other; the
\* sweep and the clock run beside it
NextRemote ==
    \/ Tick
    \/ GCTick
    \/ GCSweep
    \/ \E q \in RemoteRequests : ServeHTTP("w1", q)
    \/ GetRead("w1")
    \/ GetCheck("w1")
    \/ GetRemove("w1")
    \/ ServeGetReply("w1")
    \/ SetBegin("w1")
    \/ SetCommit("w1")
    \/ PostReturn("w1")
    \/ ServeDeleteRemove("w1")
    \/ ServeDeleteReply("w1")

SpecRemote == Init /\ [][NextRemote]_vars

(***************************************************************************)
(* The fasthttp server, ServiceFasthttp.ServeHTTP: the same branches, but  *)
(* the body of a POST is the slice reqCtx.Request.Body()[0:], which points *)
(* into the buffer of the request context, and that slice is what Set      *)
(* stores.  The next request read into the same buffer writes over it.     *)
(***************************************************************************)
\* the requests of one connection to the fasthttp server
RemoteRequestsFasthttp ==
    { q \in RemoteRequests : q.key # "k2" /\ q.Header.CacheControl = <<>> }

\* the request is read into buffer b of its request context and the handler
\* takes the branch of its verb
ServeHTTPFasthttp(w, q) ==
    /\ workers[w].pc \in {"idle", "done"}
    /\ tasks[w].pc = "none"
    /\ \E b \in Buffers :
          /\ cache' = WriteBuffer(cache, b, q.Body)
          /\ IF q.key # "" /\ q.Method = "POST" /\ Len(q.Body) # 0
             THEN /\ workers' = [workers EXCEPT ![w] =
                        [IdleWorker EXCEPT !.pc = "set", !.kind = "post", !.key = q.key,
                                           !.req = q, !.storeOps = 1]]
                  /\ tasks' = [tasks EXCEPT ![w] =
                        SetTask(q.key, validateStatusCode(q.statusCode),
                                validateContentType(q.cType),
                                [buf |-> b, bytes |-> q.Body],
                                validateCacheDuration(PostSeconds(q)))]
             ELSE /\ workers' = [workers EXCEPT ![w] =
                        IF q.key # "" /\ q.Method = "GET"
                        THEN [IdleWorker EXCEPT !.pc = "getRead", !.kind = "serveGet",
                                                !.req = q, !.key = q.key]
                        ELSE IF q.key # "" /\ q.Method = "DELETE"
                        THEN [IdleWorker EXCEPT !.pc = "remove", !.kind = "delete",
                                                !.req = q, !.key = q.key]
                        ELSE [IdleWorker EXCEPT
                                 !.pc = "done", !.req = q, !.key = q.key,
                                 !.kind = IF q.Method = "GET" THEN "serveGet"
                                          ELSE IF q.Method = "POST" THEN "post"
                                          ELSE IF q.Method = "DELETE" THEN "delete"
                                          ELSE "verb",
                                 !.sink = SinkWriteHeader(NewSink, failStatus)]]
                  /\ UNCHANGED tasks
    /\ UNCHANGED <<now, gcOn, sweep, expiration, lastSet>>

\* ServeHTTP, method GET: the entry Get returned is written to the response
ServeGetReplyFasthttp(w) ==
    LET me == workers[w]
        v == [me.v EXCEPT !.Body = @.bytes]
    IN  /\ me.pc = "reply"
        /\ workers' = [workers EXCEPT ![w] =
              [me EXCEPT !.pc = "done",
                         !.sink = IF me.path = "hit" THEN WriteEntry(me.sink, v)
                                  ELSE SinkWriteHeader(me.sink, failStatus)]]
        /\ UNCHANGED <<now, cache, gcOn, sweep, expiration, tasks, lastSet>>

\* the requests of one connection are served one after the other, within the
\* lifetime of the entries
NextRemoteFasthttp ==
    \/ \E q \in RemoteRequestsFasthttp : ServeHTTPFasthttp("w1", q)
    \/ GetRead("w1")
    \/ GetCheck("w1")
    \/ ServeGetReplyFasthttp("w1")
    \/ SetBegin("w1")
    \/ SetCommit("w1")
    \/ PostReturn("w1")
    \/ ServeDeleteRemove("w1")
    \/ ServeDeleteReply("w1")

SpecRemoteFasthttp == Init /\ [][NextRemoteFasthttp]_vars

(***************************************************************************)
(* The client role: Request wraps the origin handler of a process that     *)
(* keeps no store of its own.  It asks the remote cache server with a GET, *)
(* and on a miss runs the origin handler through the recorder and sends    *)
(* the recorded response with a POST.  The goroutine of the client is w1,  *)
(* the remote server answers on w2.                                        *)
(***************************************************************************)
\* the requests that reach the client: a plain one, one that the default
\* pre-rules turn away, one whose handler writes no body, one of another
\* method, one whose handler answers with the status 400 and a body
ClientRequests ==
    { Req("GET", "/", "", NoHeaders),
      Req("GET", "/", "", [NoHeaders EXCEPT !.Authorization = "basic"]),
      Req("GET", "/empty", "", NoHeaders),
      Req("POST", "/", "q=1", NoHeaders) } \cup StatusRequests

\* req.Host of the requests
ClientHost == "origin"

\* remoteURI.String: the cache_key parameter is method + scheme + host + key;
\* the scheme of a request a server received is empty
RemoteKey(req) == req.Method \o "" \o ClientHost \o getCacheKey(req)

\* the GET of the client
RemoteGet(key) == ServerReq("GET", PostReq(key, 0, 0, "", <<>>, <<>>))

\* the POST of the client: the recorded body, with the status code, the
\* duration the handler was wrapped with and the content type as parameters
RemotePost(key, res, exp) ==
    ServerReq("POST", PostReq(key, exp, res.statusCode,
                              validateContentType(res.underline.Header.ContentType),
                              <<>>, getBody(res)))

\* a gateway in front of the remote, or the remote itself, answers with an
\* error of its own
GatewayError ==
    [err |-> FALSE, StatusCode |-> 500, ContentType |-> "text/html",
     Body |-> <<"e", "r", "r">>, readable |-> TRUE, timedOut |-> FALSE]

\* what Client.Do can return for the GET while the server goroutine is s: a
\* transport error (the remote is unreachable, or Client.Timeout has passed
\* without an answer), an error status, or, once the server has answered,
\* its answer.  Client.Do returns when the status line and the headers have
\* arrived; the body is a stream that has not been read yet, and nothing has
\* failed on it so far
Responses(s) ==
    {[NoResponse EXCEPT !.err = TRUE, !.timedOut = t] : t \in BOOLEAN}
    \cup {GatewayError}
    \cup IF workers[s].pc # "done" THEN {}
         ELSE {[err |-> FALSE,
                StatusCode |-> workers[s].sink.StatusCode,
                ContentType |-> workers[s].sink.Header.ContentType,
                Body |-> workers[s].sink.Body,
                readable |-> TRUE, timedOut |-> FALSE]}

\* how ioutil.ReadAll(response.Body) can end: the whole body is read, the
\* connection is cut, or Client.Timeout passes while the body is read
ReadResults ==
    { [readable |-> TRUE, timedOut |-> FALSE],
      [readable |-> FALSE, timedOut |-> FALSE],
      [readable |-> FALSE, timedOut |-> TRUE] }

\* Request: the GET is built and sent; when http.NewRequest fails (ok is
\* FALSE) the origin handler answers on the real sink
ClientServe(c, s, req, ok) ==
    /\ workers[c].pc \in {"idle", "done"}
    /\ workers[s].pc \in {"idle", "done"}
    /\ tasks[s].pc = "none"
    /\ workers' =
          IF ok
          THEN [workers EXCEPT
                  ![c] = [IdleWorker EXCEPT !.pc = "awaitGet", !.kind = "client",
                                            !.req = req, !.key = RemoteKey(req),
                                            !.out = RemoteGet(RemoteKey(req)),
                                            !.gets = 1],
                  ![s] = IdleWorker]
          ELSE [workers EXCEPT
                  ![c] = [IdleWorker EXCEPT !.pc = "done", !.kind = "client",
                                            !.req = req, !.key = RemoteKey(req),
                                            !.path = "direct", !.originCalls = 1,
                                            !.sink = ServeDirect(OriginCalls(req), NewSink)]]
    /\ UNCHANGED <<now, cache, gcOn, sweep, expiration, tasks, lastSet>>

\* the remote server takes the request the client has sent
RemoteServe(s, c) ==
    /\ workers[s].pc = "idle"
    /\ workers[c].pc \in {"awaitGet", "awaitPost"}
    /\ ServeHTTP(s, workers[c].out)

\* a client that sends the POST whatever the recorder holds
ClientPostsAlways(res) == TRUE

\* Request: the POST is sent when the recorded body is not empty
ClientPosts(res) == Len(getBody(res)) # 0

\* Request, Client.Do failed or answered failStatus: the origin handler runs
\* through the recorder and a recorded body is sent to the remote
ClientMiss(c, s) ==
    LET me == workers[c]
        res == ServeRecorded(OriginCalls(me.req), acquireResponseRecorder(me.sink))
        post == ClientPosts(res)
    IN  /\ me.pc = "awaitGet"
        /\ \E r \in Responses(s) :
              /\ r.err \/ r.StatusCode = failStatus
              /\ workers' = [workers EXCEPT
                    ![c] = [me EXCEPT !.pc = IF post THEN "awaitPost" ELSE "done",
                                      !.remote = r, !.path = "miss",
                                      !.sink = res.underline,
                                      !.originCalls = @ + 1,
                                      !.posts = IF post THEN @ + 1 ELSE @,
                                      !.out = IF post
                                              THEN RemotePost(me.key, res, cacheDuration)
                                              ELSE @],
                    ![s] = IF post /\ workers[s].pc = "done" THEN IdleWorker ELSE @]
        /\ UNCHANGED <<now, cache, gcOn, sweep, expiration, tasks, lastSet>>

\* Request, any other answer: its content type and its status code are
\* written to the caller; the body has still to be read
ClientHit(c, s) ==
    LET me == workers[c]
    IN  /\ me.pc = "awaitGet"
        /\ \E r \in Responses(s) :
              /\ ~r.err /\ r.StatusCode # failStatus
              /\ workers' = [workers EXCEPT ![c] =
                    [me EXCEPT !.pc = "readAll", !.remote = r, !.path = "hit",
                               !.sink = SinkWriteHeader(
                                           [me.sink EXCEPT !.Header.ContentType =
                                                              r.ContentType],
                                           r.StatusCode)]]
        /\ UNCHANGED <<now, cache, gcOn, sweep, expiration, tasks, lastSet>>

\* Request, the hit path: ioutil.ReadAll(response.Body) returns; when it
\* failed the handler returns with what it has written so far
ClientReadAll(c) ==
    LET me == workers[c]
    IN  /\ me.pc = "readAll"
        /\ \E rd \in ReadResults :
              workers' = [workers EXCEPT ![c] =
                 [me EXCEPT !.pc = IF rd.readable THEN "write" ELSE "done",
                            !.remote.readable = rd.readable,
                            !.remote.timedOut = rd.timedOut]]
        /\ UNCHANGED <<now, cache, gcOn, sweep, expiration, tasks, lastSet>>

\* Request, the hit path: res.Write(responseBody), the body that was read
\* goes to the caller
ClientWrite(c) ==
    LET me == workers[c]
    IN  /\ me.pc = "write"
        /\ workers' = [workers EXCEPT ![c] =
              [me EXCEPT !.pc = "done", !.sink = SinkWrite(@, me.remote.Body)]]
        /\ UNCHANGED <<now, cache, gcOn, sweep, expiration, tasks, lastSet>>

\* Request: Client.Do of the POST returns, with the answer of the server,
\* with an error or after Client.Timeout; the result is not looked at
ClientPostReturn(c, s) ==
    /\ workers[c].pc = "awaitPost"
    /\ workers' = [workers EXCEPT ![c] = [@ EXCEPT !.pc = "done"]]
    /\ UNCHANGED <<now, cache, gcOn, sweep, expiration, tasks, lastSet>>

\* one client serves its requests one after the other; the remote server
\* answers each of its calls, or fails to
NextClient ==
    \/ \E req \in ClientRequests, ok \in BOOLEAN : ClientServe("w1", "w2", req, ok)
    \/ RemoteServe("w2", "w1")
    \/ ClientMiss("w1", "w2")
    \/ ClientHit("w1", "w2")
    \/ ClientReadAll("w1")
    \/ ClientWrite("w1")
    \/ ClientPostReturn("w1", "w2")
    \/ GetRead("w2")
    \/ GetCheck("w2")
    \/ ServeGetReply("w2")
    \/ SetBegin("w2")
    \/ SetCommit("w2")
    \/ PostReturn("w2")

SpecClient == Init /\ [][NextClient]_vars

\* the goroutine of the client keeps running, and Client.Timeout ends each
\* of its calls; nothing is assumed of the remote server
FairSpecClient ==
    SpecClient /\ WF_vars(ClientMiss("w1", "w2") \/ ClientHit("w1", "w2")
                              \/ ClientReadAll("w1") \/ ClientWrite("w1")
                              \/ ClientPostReturn("w1", "w2"))

(***************************************************************************)
(* The cached handlers of the two adapters, given the same requests: w1    *)
(* runs Handler.ServeHTTP of internal/nethttp, which asks the deniers, w2  *)
(* Handler.ServeHTTP of internal/fhttp, which asks the pre-validators.     *)
(***************************************************************************)
\* one request, with any of the headers the rules read, reaches both adapters
InitRules ==
    /\ now = 0
    /\ cache = [k \in {} |-> NilEntry]
    /\ gcOn = startGC(<<>>, GC)
    /\ sweep = StartSweep(gcOn, 0)
    /\ expiration = [p \in Keys |-> validateCacheDuration(RouteDuration(p))]
    /\ \E req \in RuleRequests :
          workers = [w \in Workers |->
                        [IdleWorker EXCEPT !.pc = "claim", !.kind = "claim", !.req = req]]
    /\ tasks = [w \in Workers |-> NoTask]
    /\ lastSet = [k \in {} |-> [at |-> 0, ttl |-> 0, ok |-> FALSE]]

\* Handler of internal/nethttp keeps one entry of its own as well; the model
\* keeps it in the map under a key no other handler uses
NethttpEntry(req) == "nethttp" \o req.Path

\* net/http, Handler.ServeHTTP is entered: the loop over the deniers; a
\* request one of them denies is served by the origin handler on the
\* caller's writer and the handler returns
ClaimNethttp(w) ==
    LET me == workers[w]
    IN  /\ me.pc = "claim"
        /\ workers' = [workers EXCEPT ![w] =
              IF claim(DefaultDeniers, me.req)
              THEN [me EXCEPT !.pc = "entry", !.path = "claimed",
                              !.key = NethttpEntry(me.req)]
              ELSE [me EXCEPT !.pc = "done", !.path = "denied",
                              !.originCalls = @ + 1,
                              !.sink = ServeDirect(OriginCalls(me.req), @)]]
        /\ UNCHANGED <<now, cache, gcOn, sweep, expiration, tasks, lastSet>>

\* net/http, Handler.ServeHTTP asks h.Entry.Response(): a stored response is
\* written to the caller, content type, status code and body, and the
\* handler returns; otherwise the origin handler is next
ResponseNethttp(w) ==
    LET me == workers[w]
        r == EntryResponse(cache, me.key, now)
        seen == [me EXCEPT !.storeOps = @ + 1, !.at = now,
                           !.known = me.key \in DOMAIN cache]
    IN  /\ me.pc = "entry"
        /\ workers' = [workers EXCEPT ![w] =
              IF r.exists
              THEN [seen EXCEPT !.pc = "done", !.path = "hit", !.v = r.res,
                                !.sink = WriteEntry(me.sink, r.res)]
              ELSE [seen EXCEPT !.pc = "recorder", !.path = "miss"]]
        /\ UNCHANGED <<now, cache, gcOn, sweep, expiration, tasks, lastSet>>

\* net/http, Handler.ServeHTTP on a miss: the origin handler runs through
\* the recorder, and a recorded body that is not empty renews the entry, by
\* h.Entry.Reset, before the handler returns; no rule is asked about the
\* response
OriginNethttp(w) ==
    LET me == workers[w]
        res == ServeRecorded(OriginCalls(me.req), acquireResponseRecorder(me.sink))
        keep == hasBody(getBody(res))
        life == EntryLife(RouteDuration(me.req.Path), me.req)
    IN  /\ me.pc = "recorder"
        /\ workers' = [workers EXCEPT ![w] =
              [me EXCEPT !.pc = "done", !.sink = res.underline,
                         !.originCalls = @ + 1,
                         !.storeOps = IF keep THEN @ + 1 ELSE @,
                         !.sched = IF keep THEN @ + 1 ELSE @,
                         !.path = IF keep THEN "persist" ELSE "invalid"]]
        /\ cache' = IF keep
                    THEN EntryReset(cache, me.key, res.statusCode,
                                    res.underline.Header.ContentType,
                                    getBody(res), life, now)
                    ELSE cache
        /\ UNCHANGED <<now, gcOn, sweep, expiration, tasks, lastSet>>

\* fasthttp, Handler.ServeHTTP is entered: h.Validator.claim(reqCtx); a
\* request a pre-validator refuses is served by the origin handler on the
\* request context and the handler returns
ClaimFasthttp(w) ==
    LET me == workers[w]
    IN  /\ me.pc = "claim"
        /\ workers' = [workers EXCEPT ![w] =
              IF claimFasthttp(DefaultPreValidators, me.req)
              THEN [me EXCEPT !.pc = "response", !.path = "claimed",
                              !.key = HandlerEntry(me.req), !.rules = TRUE]
              ELSE [me EXCEPT !.pc = "done", !.path = "denied",
                              !.originCalls = @ + 1, !.rules = TRUE,
                              !.sink = ServeDirect(OriginCalls(me.req), @)]]
        /\ UNCHANGED <<now, cache, gcOn, sweep, expiration, tasks, lastSet>>

\* once both adapters have answered, the next request reaches both
AskBoth(req) ==
    /\ \A w \in Workers : workers[w].pc = "done"
    /\ workers' = [w \in Workers |->
                      [IdleWorker EXCEPT !.pc = "claim", !.kind = "claim", !.req = req]]
    /\ UNCHANGED <<now, cache, gcOn, sweep, expiration, tasks, lastSet>>

\* w1 is the goroutine of the net/http handler, w2 that of the fasthttp
\* handler
NextRules ==
    \/ \E req \in RuleRequests : AskBoth(req)
    \/ ClaimNethttp("w1")
    \/ ResponseNethttp("w1")
    \/ OriginNethttp("w1")
    \/ ClaimFasthttp("w2")
    \/ Response("w2")
    \/ OriginValid("w2")

SpecRules == InitRules /\ [][NextRules]_vars

(***************************************************************************)
(* The key a client sends to the remote cache: remoteURI.String and        *)
(* parseClientRequestURIFasthttp put url.QueryEscape(method + scheme +     *)
(* host + key) into the cache_key parameter.  Strings are sequences of     *)
(* characters here, so that the concatenation and the escaping are         *)
(* computed.  Two clients, w1 and w2, each build the key of one request.   *)
(***************************************************************************)
\* the characters url.QueryEscape leaves alone: letters, digits, '-', '_',
\* '.', '~'
Unreserved ==
    { "a", "b", "c", "d", "e", "f", "g", "h", "i", "j", "k", "l", "m",
      "n", "o", "p", "q", "r", "s", "t", "u", "v", "w", "x", "y", "z",
      "A", "B", "C", "D", "E", "F", "G", "H", "I", "J", "K", "L", "M",
      "N", "O", "P", "Q", "R", "S", "T", "U", "V", "W", "X", "Y", "Z",
      "0", "1", "2", "3", "4", "5", "6", "7", "8", "9",
      "-", "_", ".", "~" }

\* shouldEscape(c, encodeQueryComponent)
shouldEscape(c) == c \notin Unreserved

\* the other printable characters (the grave accent left out), each with
\* the two upper-case hexadecimal digits of its byte
upperhex ==
    << <<"!", "2", "1">>, <<"#", "2", "3">>, <<"$", "2", "4">>,
       <<"%", "2", "5">>, <<"&", "2", "6">>, <<"'", "2", "7">>, <<"(", "2", "8">>,
       <<")", "2", "9">>, <<"*", "2", "A">>, <<"+", "2", "B">>, <<",", "2", "C">>,
       <<"/", "2", "F">>, <<":", "3", "A">>, <<";", "3", "B">>, <<"<", "3", "C">>,
       <<"=", "3", "D">>, <<">", "3", "E">>, <<"?", "3", "F">>, <<"@", "4", "0">>,
       <<"[", "5", "B">>, <<"]", "5", "D">>, <<"^", "5", "E">>,
       <<"\"", "2", "2">>, <<"\\", "5", "C">>, <<"{", "7", "B">>, <<"|", "7", "C">>,
       <<"}", "7", "D">> >>

\* url.QueryEscape: a space becomes '+', every other escaped character
\* '%' and the two hexadecimal digits of its byte
RECURSIVE QueryEscape(_)
QueryEscape(s) ==
    IF s = <<>> THEN <<>>
    ELSE LET c == Head(s)
             e == IF ~shouldEscape(c) THEN <<c>>
                  ELSE IF c = " " THEN <<"+">>
                  ELSE LET h == CHOOSE x \in 1..Len(upperhex) : upperhex[x][1] = c
                       IN  <<"%", upperhex[h][2], upperhex[h][3]>>
         IN  e \o QueryEscape(Tail(s))

\* remoteURI.String / parseClientRequestURIFasthttp: the value of cache_key
cacheKeyParam(method, scheme, host, key) ==
    QueryEscape(method \o scheme \o host \o key)

\* the requests of the clients: two methods, the scheme absent (a request in
\* origin form under net/http) or one of the two of HTTP, three hosts, two
\* paths
ClientMethods == {<<"G", "E", "T">>, <<"P", "O", "S", "T">>}
ClientSchemes == {<<>>, <<"h", "t", "t", "p">>, <<"h", "t", "t", "p", "s">>}
ClientHosts == {<<"a", ".", "b">>, <<"s", "a", ".", "b">>, <<"b">>}
\* the last key is the escaped path of "/a&b=%"
ClientPaths == {<<"/">>, <<"/", "a">>, <<"/", "a", "&", "b", "=", "%", "2", "5">>}

KeyRequests ==
    [Method : ClientMethods, Scheme : ClientSchemes, Host : ClientHosts,
     Path : ClientPaths]

InitKeys ==
    /\ now = 0
    /\ cache = [k \in {} |-> NilEntry]
    /\ gcOn = startGC(<<>>, GC)
    /\ sweep = StartSweep(gcOn, 0)
    /\ expiration = [p \in Keys |-> validateCacheDuration(RouteDuration(p))]
    /\ \E r1 \in KeyRequests, r2 \in KeyRequests :
          workers = [w \in Workers |->
                        [IdleWorker EXCEPT !.pc = "key", !.kind = "client",
                                           !.req = IF w = "w1" THEN r1 ELSE r2]]
    /\ tasks = [w \in Workers |-> NoTask]
    /\ lastSet = [k \in {} |-> [at |-> 0, ttl |-> 0, ok |-> FALSE]]

\* Request / RequestFasthttp: the client builds the key of its request
BuildKey(w) ==
    LET me == workers[w]
    IN  /\ me.pc = "key"
        /\ workers' = [workers EXCEPT ![w] =
              [me EXCEPT !.pc = "awaitGet",
                         !.key = cacheKeyParam(me.req.Method, me.req.Scheme,
                                               me.req.Host, me.req.Path)]]
        /\ UNCHANGED <<now, cache, gcOn, sweep, expiration, tasks, lastSet>>

NextKeys == \E w \in Workers : BuildKey(w)

SpecKeys == InitKeys /\ [][NextKeys]_vars

(***************************************************************************)
(* The response recorder under a handler that makes any calls: the         *)
(* handler of w1 calls WriteHeader and Write on the recorder, one call at  *)
(* a time, writing from buffers of its own that it may use again; when it  *)
(* has returned, the cached handler reads the recorded status and body.    *)
(***************************************************************************)
\* the calls a handler can make
HandlerCalls ==
    { [op |-> "WriteHeader", statusCode |-> 404],
      [op |-> "WriteHeader", statusCode |-> 500],
      [op |-> "Write", buf |-> "b1", contents |-> <<"x">>],
      [op |-> "Write", buf |-> "b1", contents |-> <<"y", "z">>],
      [op |-> "Write", buf |-> "b2", contents |-> <<"w">>] }

\* a handler makes at most this many calls
MaxHandlerCalls == 3

Handlers == UNION {[1..n -> HandlerCalls] : n \in 0..MaxHandlerCalls}

InitRecorder ==
    /\ now = 0
    /\ cache = [k \in {} |-> NilEntry]
    /\ gcOn = startGC(<<>>, GC)
    /\ sweep = StartSweep(gcOn, 0)
    /\ expiration = [p \in Keys |-> validateCacheDuration(RouteDuration(p))]
    /\ \E h \in Handlers :
          workers = [w \in Workers |->
                        IF w = "w1"
                        THEN [IdleWorker EXCEPT !.pc = "origin", !.kind = "handler",
                                                !.handler = h]
                        ELSE IdleWorker]
    /\ tasks = [w \in Workers |-> NoTask]
    /\ lastSet = [k \in {} |-> [at |-> 0, ttl |-> 0, ok |-> FALSE]]

\* the handler makes its next call on the recorder
HandlerCall(w) ==
    LET me == workers[w]
    IN  /\ me.pc = "origin" /\ me.kind = "handler"
        /\ me.calls < Len(me.handler)
        /\ workers' = [workers EXCEPT ![w] =
              [me EXCEPT !.calls = @ + 1,
                         !.rec = ServeRecorded(<<me.handler[me.calls + 1]>>, @)]]
        /\ UNCHANGED <<now, cache, gcOn, sweep, expiration, tasks, lastSet>>

\* the handler has returned: recorder.getBody() and recorder.statusCode
\* are read
HandlerReturn(w) ==
    LET me == workers[w]
    IN  /\ me.pc = "origin" /\ me.kind = "handler"
        /\ me.calls = Len(me.handler)
        /\ workers' = [workers EXCEPT ![w] =
              [me EXCEPT !.pc = "done", !.sink = me.rec.underline,
                         !.v = [NilEntry EXCEPT !.StatusCode = me.rec.statusCode,
                                                !.Body = getBody(me.rec)]]]
        /\ UNCHANGED <<now, cache, gcOn, sweep, expiration, tasks, lastSet>>

NextRecorder ==
    \/ HandlerCall("w1")
    \/ HandlerReturn("w1")

SpecRecorder == InitRecorder /\ [][NextRecorder]_vars

(***************************************************************************)
(* Properties.                                                             *)
(***************************************************************************)
\* a request the cached handler has finished serving
Served(w) == workers[w].pc = "done" /\ workers[w].kind = "req"

\* a Get the store has answered to a direct caller
Answered(w) == workers[w].pc = "done" /\ workers[w].kind = "get"

\* what the origin handler writes for req when it is given the real sink
DirectOutput(req) == ServeDirect(OriginCalls(req), NewSink)

\* some pre-rule of the route turns the request away
TurnedAway(req) ==
    \E i \in 1..Len(RouteDeniers(req.Path)) : RouteDeniers(req.Path)[i][req]

\* some post-rule of the route refuses the response of the origin handler
\* a pre-validator of the route's handler turns the request away
Unclaimed(req) ==
    \E i \in 1..Len(RoutePreValidators(req.Path)) :
        ~RoutePreValidators(req.Path)[i][req]

Refused(req) ==
    \E i \in 1..Len(RoutePostRules(req.Path)) :
        ~RoutePostRules(req.Path)[i][DirectOutput(req).Header]

\* the origin handler behind the request calls NoCache
CallsNoCache(req) ==
    \E i \in 1..Len(OriginCalls(req)) : OriginCalls(req)[i].op = "NoCache"

\* a Set for the key is stored or on its way
Persisted(key) ==
    \/ key \in DOMAIN cache
    \/ \E x \in Workers : tasks[x].pc # "none" /\ tasks[x].key = key

\* C1: on a cache hit the cached handler writes exactly the stored status
\* code, content type and body to the response sink, and the origin handler
\* is invoked zero times for that request.
HitWritesStoredEntry ==
    \A w \in Workers :
        (Served(w) /\ workers[w].path = "hit") =>
            /\ workers[w].sink.StatusCode = workers[w].v.StatusCode
            /\ workers[w].sink.Header.ContentType = workers[w].v.ContentType
            /\ workers[w].sink.Body = workers[w].v.Body
            /\ workers[w].originCalls = 0

\* a hit on an entry whose status code is not the default one
HitWitness ==
    \E w \in Workers :
        /\ Served(w) /\ workers[w].path = "hit"
        /\ workers[w].v.StatusCode = 201
        /\ workers[w].sink.Body # <<>>

\* C2, as stated: after Set(key, ..., T) with no later Set, Remove or Clear
\* on that key, every Get(key) made before creationTime + T is a hit and
\* every Get(key) made after that time is a miss, for every T.
ExpirationLaw ==
    \A w \in Workers :
        (Answered(w) /\ workers[w].cov) =>
            /\ workers[w].at < workers[w].setAt + workers[w].setTTL
                  => workers[w].path = "hit"
            /\ workers[w].at > workers[w].setAt + workers[w].setTTL
                  => workers[w].path = "miss"

\* C3, as stated: for a handler wrapped with a duration above the minimum,
\* in any sequential run of cacheable requests for one key, once a response
\* has been persisted no request made before the entry expires invokes the
\* origin handler, and a request made after the expiry (or before anything
\* was persisted) invokes it exactly once and hands its response to one Set.
SequentialRun ==
    \A w \in Workers :
        (/\ Served(w) /\ ~TurnedAway(workers[w].req)
         /\ workers[w].req.Path = "/") =>
            IF workers[w].known /\ workers[w].at <= workers[w].setAt + cacheDuration
            THEN workers[w].originCalls = 0 /\ workers[w].path = "hit"
            ELSE /\ workers[w].originCalls = 1
                 /\ workers[w].sched = 1
                 /\ workers[w].path = "persist"

\* C4: if a pre-rule turns the request away, the origin handler is executed
\* directly against the real response sink and the store is neither read nor
\* written for that request: an existing entry is left unchanged.
ClaimShortCircuit ==
    [][\A w \in Workers :
          (/\ workers'[w] # workers[w]
           /\ workers'[w].kind = "req"
           /\ Unclaimed(workers'[w].req)) =>
              /\ workers'[w].pc = "done"
              /\ workers'[w].originCalls = 1
              /\ workers'[w].storeOps = 0
              /\ workers'[w].sink = DirectOutput(workers'[w].req)
              /\ cache' = cache
              /\ tasks' = tasks]_vars

\* a request with max-age=0 was turned away while an entry for its key is
\* stored and not expired
TurnedAwayWitness ==
    \E w \in Workers :
        /\ Served(w) /\ workers[w].path = "denied"
        /\ workers[w].req.Header.MaxAge = "0"
        /\ workers[w].key = ""
        /\ getCacheKey(workers[w].req) \in DOMAIN cache
        /\ ~Expired(cache[getCacheKey(workers[w].req)], now)

\* C5: a request carrying an Authorization header is never served from the
\* cache and its response is never persisted: each such request invokes the
\* origin handler, also when an entry for its key is stored.
AuthorizationNeverCached ==
    \A w \in Workers :
        (workers[w].kind = "req" /\ workers[w].req.Header.Authorization # "") =>
            /\ workers[w].pc = "done"
            /\ workers[w].path = "denied"
            /\ workers[w].originCalls = 1
            /\ workers[w].sched = 0
            /\ workers[w].sink.Body = OriginBody(workers[w].req)

\* a request with an Authorization header was answered by the origin
\* handler while an entry for its key is stored and not expired
AuthorizationWitness ==
    \E w \in Workers :
        /\ Served(w) /\ workers[w].req.Header.Authorization # ""
        /\ workers[w].originCalls = 1
        /\ getCacheKey(workers[w].req) \in DOMAIN cache
        /\ ~Expired(cache[getCacheKey(workers[w].req)], now)

\* C6: if a post-rule refuses the response after a miss, the output of the
\* origin handler is still delivered unchanged, nothing is persisted, and the
\* key stays absent from the store: the next request invokes the origin
\* handler again.
ValidShortCircuit ==
    /\ \A w \in Workers :
          (Served(w) /\ ~Unclaimed(workers[w].req) /\ Refused(workers[w].req)) =>
              /\ workers[w].path = "invalid"
              /\ workers[w].originCalls = 1
              /\ workers[w].sched = 0
              /\ workers[w].sink = DirectOutput(workers[w].req)
    /\ \A req \in Requests : Refused(req) => ~Persisted(getCacheKey(req))

\* the response the post-rule of /invalid2 refuses was delivered
RefusedWitness ==
    \E w \in Workers :
        /\ Served(w) /\ workers[w].req.Path = "/invalid2"
        /\ workers[w].path = "invalid"
        /\ workers[w].sink.Header.DONT = "x"
        /\ workers[w].sink.Body = OriginBody(workers[w].req)

\* C7, as stated: if the origin handler calls NoCache on its response sink,
\* its response is delivered but never persisted: every such request invokes
\* the origin handler, and no step of it changes the store or starts a Set.
NoCacheNeverPersisted ==
    [][\A w \in Workers :
          (/\ workers'[w] # workers[w]
           /\ workers'[w].kind = "req"
           /\ CallsNoCache(workers'[w].req)) =>
              /\ cache' = cache
              /\ tasks' = tasks
              /\ workers'[w].path # "hit"
              /\ workers'[w].pc = "done" =>
                    /\ workers'[w].originCalls = 1
                    /\ workers'[w].sink = DirectOutput(workers'[w].req)]_vars


\* C8, as stated: two requests that differ in method, path or query never
\* share a cache entry, so the response served on a hit is the one the origin
\* handler produced for a request of the same method, path and query.
NoSharedEntry ==
    \A w \in Workers :
        (Served(w) /\ workers[w].path = "hit") =>
            workers[w].sink.Body = OriginBody(workers[w].req)

\* C9: on a miss whose recorded body is empty nothing is persisted: the
\* request starts no Set and the key stays absent from the store, so that the
\* next request for it is a miss again.
EmptyBodyNotPersisted ==
    \A w \in Workers :
        (/\ Served(w) /\ ~TurnedAway(workers[w].req)
         /\ workers[w].sink.Body = <<>>) =>
            /\ workers[w].path = "invalid"
            /\ workers[w].originCalls = 1
            /\ workers[w].sched = 0
            /\ ~Persisted(workers[w].key)

\* the handler of /empty answered 204 with no body
EmptyBodyWitness ==
    \E w \in Workers :
        /\ Served(w) /\ workers[w].req.Path = "/empty"
        /\ workers[w].path = "invalid"
        /\ workers[w].sink.StatusCode = 204
        /\ workers[w].sink.Body = <<>>

\* the step that ends a miss with a response to persist: the response is
\* complete on the sink, the store is as it was and the Set is only started
ResponseBeforeSet ==
    [][\A w \in Workers :
          (/\ workers[w].pc = "origin"
           /\ workers'[w].pc = "done"
           /\ workers'[w].path = "persist") =>
              /\ workers'[w].sink = DirectOutput(workers[w].req)
              /\ cache' = cache
              /\ \E x \in Workers :
                    /\ tasks[x].pc = "none"
                    /\ tasks'[x].pc = "new"
                    /\ tasks'[x].key = workers[w].key
                    /\ tasks'[x].body = workers'[w].sink.Body]_vars

\* the step in which a Set takes effect stores the entry built from the
\* response it was handed
SetStoresResponse ==
    [][\A x \in Workers :
          (tasks[x].pc = "ready" /\ tasks'[x].pc = "none") =>
              /\ tasks[x].key \in DOMAIN cache'
              /\ cache'[tasks[x].key].Body = tasks[x].body
              /\ cache'[tasks[x].key].Expires
                    = tasks[x].at + validateCacheDuration(tasks[x].expiration)]_vars

\* a Set that was started takes effect
PersistTakesEffect ==
    \A x \in Workers : (tasks[x].pc = "new") ~> (tasks[x].pc = "none")

\* once a Set has taken effect, a request made before the expiry of its
\* entry is a hit
HitAfterPersist ==
    \A w \in Workers :
        (/\ Served(w) /\ ~TurnedAway(workers[w].req) /\ workers[w].known
         /\ workers[w].at <= workers[w].setAt + workers[w].setTTL) =>
            workers[w].path = "hit"

\* C10, as stated: on a miss with a non-empty, valid response Store.Set runs
\* on a detached task: the response is completely written before that Set
\* takes effect, the request does not wait for it, and under fair scheduling
\* the Set eventually takes effect, so that a later request for the key made
\* before the expiry is a hit.
DetachedPersist ==
    /\ ResponseBeforeSet
    /\ SetStoresResponse
    /\ PersistTakesEffect
    /\ []HitAfterPersist
\* the request of w was a first request for a cold key: its lookup found
\* that no Set had ever stored the key
ColdFirst(w) == Served(w) /\ ~TurnedAway(workers[w].req) /\ ~workers[w].known

\* the entry holds, whole, the response that the request of w was given
EntryOfResponse(e, w) ==
    /\ e.StatusCode = validateStatusCode(workers[w].sink.StatusCode)
    /\ e.ContentType = validateContentType(workers[w].sink.Header.ContentType)
    /\ e.Body = workers[w].sink.Body
    /\ e.Body # <<>>

\* C11: parallel first requests for one cold key each invoke the origin
\* handler and each hand their response to a Set (no single flight); once
\* all these Sets have completed the store holds one entry for the key, the
\* whole response of one of the requests, until the sweep deletes it as
\* expired.
ParallelFirstRequests ==
    /\ \A w \in Workers :
          ColdFirst(w) =>
              /\ workers[w].originCalls = 1
              /\ workers[w].sched = 1
              /\ workers[w].sink = DirectOutput(workers[w].req)
              /\ Persisted(workers[w].key) \/ workers[w].key \in DOMAIN lastSet
    /\ ((\A w \in Workers : ColdFirst(w)) /\ (\A x \in Workers : tasks[x].pc = "none")) =>
          \A k \in {workers[w].key : w \in Workers} :
              /\ k \in DOMAIN lastSet
              /\ DOMAIN cache \subseteq {k}
              /\ IF k \in DOMAIN cache
                 THEN \E w \in Workers : EntryOfResponse(cache[k], w)
                 ELSE gcOn # <<>> /\ now > lastSet[k].at + validateCacheDuration(lastSet[k].ttl)

\* two different requests for the cold key were served in parallel, both by
\* the origin handler, and the entry of one of them is stored
ParallelWitness ==
    /\ \A w \in Workers : ColdFirst(w)
    /\ workers["w1"].req # workers["w2"].req
    /\ \A x \in Workers : tasks[x].pc = "none"
    /\ "/" \in DOMAIN cache
    /\ EntryOfResponse(cache["/"], "w2")

\* the goroutine x takes the exclusive lock of its Set in this step
TakesLock(x) == tasks[x].pc = "ready" /\ tasks'[x].pc = "none"

\* the Entry that the arguments of the Set of x stand for
EntryOfSet(x) ==
    [StatusCode |-> IF tasks[x].statusCode <= 0 THEN 200 ELSE tasks[x].statusCode,
     ContentType |-> IF tasks[x].cType = "" THEN contentText ELSE tasks[x].cType,
     Body |-> tasks[x].body,
     Expires |-> tasks[x].at + (IF tasks[x].expiration <= 2 THEN 4
                                ELSE tasks[x].expiration)]

\* C12: Set replaces an entry wholesale and the last Set wins: the Set that
\* takes the exclusive lock leaves under its key exactly the entry of its own
\* arguments (status, content type, body, expiry) and changes no other key,
\* and an entry of the store only ever changes to the entry of the Set that
\* takes the lock in that step, never to a mix of two Sets.
LastSetWins ==
    [][/\ \A x \in Workers :
             TakesLock(x) =>
                 /\ tasks[x].key \in DOMAIN cache'
                 /\ cache'[tasks[x].key] = EntryOfSet(x)
                 /\ \A k \in DOMAIN cache \ {tasks[x].key} :
                        k \in DOMAIN cache' /\ cache'[k] = cache[k]
       /\ \A k \in DOMAIN cache' :
             (k \notin DOMAIN cache \/ cache'[k] # cache[k]) =>
                 \E x \in Workers :
                     TakesLock(x) /\ tasks[x].key = k /\ cache'[k] = EntryOfSet(x)
      ]_vars

\* two Sets overlap: the entry of the Set that was called later is stored
\* while the Set called first, with other arguments, still waits for the lock
LastSetWitness ==
    /\ tasks["w1"].pc = "ready"
    /\ tasks["w1"].key \in DOMAIN cache
    /\ tasks["w1"].key \in DOMAIN lastSet
    /\ lastSet[tasks["w1"].key].at > tasks["w1"].at
    /\ cache[tasks["w1"].key].Body # tasks["w1"].body
    /\ cache[tasks["w1"].key].StatusCode = 201

\* C13, as stated: the body of a stored Entry is an owned, immutable copy:
\* once the origin handler has returned, no step changes the bytes of an
\* entry of the store, other than a Set replacing the entry, nor the bytes
\* of a body handed to a Store.Set that has not yet completed.
BodyImmutable ==
    [][/\ \A k \in DOMAIN cache \cap DOMAIN cache' :
             cache'[k].Body # cache[k].Body =>
                 \E x \in Workers : TakesLock(x) /\ tasks[x].key = k
       /\ \A x \in Workers :
             (tasks[x].pc # "none" /\ tasks'[x].pc # "none") =>
                 tasks'[x].body = tasks[x].body
      ]_vars

\* the duration an entry lives when Set is given ttl
EffectiveTTL(ttl) ==
    IF ttl <= minimumAllowedCacheDuration THEN 2 * minimumAllowedCacheDuration
    ELSE ttl

\* C14: for every requested ttl at or below the minimum allowed duration
\* (negative, zero, the minimum itself) the effective TTL of the entry Set
\* builds and stores is twice the minimum; for every ttl above the minimum
\* it is the requested ttl.
EffectiveDuration ==
    /\ \A x \in Workers :
          tasks[x].pc = "ready" =>
              tasks[x].e.Expires - tasks[x].at = EffectiveTTL(tasks[x].expiration)
    /\ \A k \in DOMAIN cache :
          cache[k].Expires - lastSet[k].at = EffectiveTTL(lastSet[k].ttl)

\* an entry is stored that Set was given with exactly the minimum, while a
\* Set with a negative duration has built its entry
EffectiveDurationWitness ==
    /\ \E k \in DOMAIN cache :
          /\ lastSet[k].ttl = minimumAllowedCacheDuration
          /\ cache[k].Expires = lastSet[k].at + 4
    /\ \E x \in Workers :
          /\ tasks[x].pc = "ready" /\ tasks[x].expiration < 0
          /\ tasks[x].e.Expires = tasks[x].at + 4

\* the entry is well formed, given the time at which it was created
WellFormed(e, created) ==
    /\ e.StatusCode > 0
    /\ e.ContentType # ""
    /\ e.Expires - created > minimumAllowedCacheDuration

\* C15: in every reachable state every Entry of the store has a status code
\* above zero, a non-empty content type and a lifetime above the minimum
\* allowed duration, whether a detached Set of a cached handler or a POST to
\* the server stored it; so has every entry a Set has built.
EntriesWellFormed ==
    /\ \A k \in DOMAIN cache :
          k \in DOMAIN lastSet /\ WellFormed(cache[k], lastSet[k].at)
    /\ \A x \in Workers :
          tasks[x].pc = "ready" => WellFormed(tasks[x].e, tasks[x].at)

\* a POST that gave no status code, content type or duration has stored its
\* body with the defaults, after a cached handler had stored a response
PostWitness ==
    /\ workers["w1"].kind = "post" /\ workers["w1"].pc = "done"
    /\ workers["w1"].sink.StatusCode = successStatus
    /\ "/" \in DOMAIN cache
    /\ cache["/"].Body = <<"p">>
    /\ cache["/"].StatusCode = successStatus
    /\ cache["/"].ContentType = contentText
    /\ cache["/"].Expires = lastSet["/"].at + 4
    /\ \E x \in Workers : tasks[x].pc = "ready" /\ tasks[x].body = <<"GET", "/", "">>

\* the seconds of the first max-age=<seconds> token of a Cache-Control
\* header, 0 when there is none
MaxAgeToken(header) ==
    LET token == <<"m", "a", "x", "-", "a", "g", "e", "=">>
        hits == {i \in 1..Len(header) :
                    /\ i + Len(token) <= Len(header)
                    /\ \A j \in 1..Len(token) : header[i + j - 1] = token[j]
                    /\ IsDigit(header[i + Len(token)])}
    IN  IF hits = {} THEN 0
        ELSE LET i == CHOOSE x \in hits : \A y \in hits : x <= y
             IN  DigitsValue(header, i + Len(token), DigitsEnd(header, i + Len(token)))

\* C16, as stated: the TTL used to persist a response is the explicit TTL
\* argument of the wrapped handler when that is above the minimum allowed
\* duration; otherwise it is the max-age=<seconds> token of the Cache-Control
\* header, and 0 when there is none, which the store floors to its minimum.
PersistTTL ==
    \A w \in Workers :
        (Served(w) /\ workers[w].path = "persist") =>
            LET req == workers[w].req
                ttl == IF RouteDuration(req.Path) > minimumAllowedCacheDuration
                       THEN RouteDuration(req.Path)
                       ELSE MaxAgeToken(req.Header.CacheControl)
            IN  validateCacheDuration(expiration[req.Path]) = validateCacheDuration(ttl)

\* the goroutine w reads the map in this step
ReadsMap(w) == workers[w].pc = "rlocked" /\ workers'[w].pc = "runlock"

\* the caller w, or the Set of slot w, writes the map in this step
CallerWritesMap(w) == workers[w].pc = "locked" /\ workers'[w].pc = "unlock"

SetWritesMap(w) == tasks[w].pc = "locked" /\ tasks'[w].pc = "unlock"

\* C17: the map of the store is read only under the shared or the exclusive
\* lock and mutated only under the exclusive lock: the lock is never held
\* exclusively by two goroutines nor exclusively and shared at once, every
\* read of the map is a step of a goroutine holding the shared lock, and
\* every change of the map is a step of Set, Remove, Clear or the sweep
\* taken while that goroutine alone holds the lock.
LockDiscipline ==
    /\ [](Cardinality(Exclusive) <= 1 /\ (Exclusive # {} => Shared = {}))
    /\ [][/\ \A w \in Workers :
               /\ ReadsMap(w) => (w \in Shared /\ Exclusive = {})
               /\ CallerWritesMap(w) => (Exclusive = {<<"caller", w>>} /\ Shared = {})
               /\ SetWritesMap(w) => (Exclusive = {<<"set", w>>} /\ Shared = {})
         /\ cache' # cache =>
               \E w \in Workers : CallerWritesMap(w) \/ SetWritesMap(w)
        ]_vars

\* a Get waits for the shared lock and a Set for the exclusive lock while
\* the other Set holds it and has written the map
LockWitness ==
    /\ workers["w1"].pc = "rlock" /\ workers["w1"].kind = "get"
    /\ tasks["w1"].pc = "ready"
    /\ tasks["w2"].pc = "unlock"
    /\ "/" \in DOMAIN cache

\* the sweep goroutine w scans the map in this step
Sweeps(w) == CallerWritesMap(w) /\ workers[w].kind = "gc"

\* C18, as stated: each tick of the sweep takes the exclusive lock once,
\* scans all entries and deletes exactly those with expiresAt <= now; every
\* entry with expiresAt > now is left unchanged.
SweepAtExpiry ==
    [][\A w \in Workers :
          Sweeps(w) =>
              /\ Exclusive = {<<"caller", w>>}
              /\ DOMAIN cache' = {k \in DOMAIN cache : cache[k].Expires > workers[w].at}
              /\ \A k \in DOMAIN cache' : cache'[k] = cache[k]
      ]_vars

\* C18, amended: each tick of the sweep reads the clock, takes the exclusive
\* lock once, scans all entries and deletes exactly those whose expiresAt is
\* before the time read; every entry with expiresAt at or after that time is
\* left unchanged.
SweepAfterExpiry ==
    [][\A w \in Workers :
          Sweeps(w) =>
              /\ Exclusive = {<<"caller", w>>}
              /\ DOMAIN cache' = {k \in DOMAIN cache : cache[k].Expires >= workers[w].at}
              /\ \A k \in DOMAIN cache' : cache'[k] = cache[k]
      ]_vars

\* a tick at the very time an entry expires has scanned the map and left the
\* entry in it
SweepWitness ==
    /\ workers["w1"].kind = "gc" /\ workers["w1"].pc = "unlock"
    /\ "/" \in DOMAIN cache
    /\ cache["/"].Expires = workers["w1"].at

\* C19: the sweep goroutine is started at most once per store however often
\* startGC is called, and never with an interval at or below the minimum
\* allowed duration: a call starts it only when none is running and the
\* interval given is above the minimum, and a started sweep stays as it is.
SweepStartedOnce ==
    /\ [](Len(gcOn) <= 1 /\ \A i \in 1..Len(gcOn) : gcOn[i] > minimumAllowedCacheDuration)
    /\ [][gcOn' # gcOn =>
             /\ gcOn = <<>>
             /\ \E w \in Workers :
                   /\ workers'[w].kind = "startGC"
                   /\ workers'[w].gcDuration > minimumAllowedCacheDuration
                   /\ gcOn' = <<workers'[w].gcDuration>>
        ]_vars

\* startGC has been called three times, the last time above the minimum, on
\* a store whose sweep runs
StartGCWitness ==
    /\ workers["w1"].kind = "startGC"
    /\ workers["w1"].calls = 3
    /\ workers["w1"].gcDuration = gcInterval
    /\ gcOn = <<gcInterval>>

\* C20: Invalidate(request) removes exactly the entry under the cache key of
\* the request and leaves every other key unchanged; Clear() leaves the
\* store empty; both act whatever the pre-rules say of the request.
InvalidateFrame ==
    [][\A w \in Workers :
          /\ (workers[w].pc = "remove" /\ workers'[w].pc = "done") =>
                /\ workers[w].req \in InvalidateRequests
                /\ DOMAIN cache' = DOMAIN cache \ {workers[w].req.Path}
                /\ \A k \in DOMAIN cache' : cache'[k] = cache[k]
          /\ (workers[w].pc = "clear" /\ workers'[w].pc = "done") =>
                DOMAIN cache' = {}
      ]_vars

\* Invalidate, called with a request that the pre-rules turn away, has
\* removed the entry of its route and left the entry of the other route
InvalidateWitness ==
    /\ workers["w2"].kind = "invalidate" /\ workers["w2"].pc = "done"
    /\ workers["w2"].path = "removed"
    /\ TurnedAway(workers["w2"].req)
    /\ "/" \notin DOMAIN cache
    /\ "/ttl" \in DOMAIN cache

\* C21: Clear is idempotent: every call of Clear leaves the store empty,
\* the second of two calls as the first, and on an empty store it changes
\* nothing; Remove of a key the store does not hold changes nothing and
\* returns like any other Remove.
ClearIdempotent ==
    [][\A w \in Workers :
          /\ (workers[w].pc = "clear" /\ workers'[w].pc = "done") =>
                /\ cache' = <<>>
                /\ cache = <<>> => cache' = cache
                /\ CacheClear(cache') = cache'
          /\ (workers[w].pc = "remove" /\ workers'[w].pc = "done"
                /\ workers[w].key \notin DOMAIN cache) =>
                /\ cache' = cache
                /\ workers'[w].path = "absent"
                /\ workers'[w].sink = workers[w].sink
      ]_vars

\* a goroutine has called Clear twice in a row, the second time on the store
\* the first call emptied, while the other goroutine had persisted a response
ClearTwiceWitness ==
    /\ workers["w2"].kind = "clear" /\ workers["w2"].pc = "done"
    /\ workers["w2"].calls = 2
    /\ workers["w2"].path = "absent"
    /\ cache = <<>>
    /\ \E k \in DOMAIN lastSet : ~lastSet[k].ok

\* the request carries one of the headers the default pre-rules name: an
\* authorization credential, must-revalidate, s-maxage=0, max-age=0 or the
\* no-cache marker
NamedByDefaultRules(req) ==
    \/ req.Header.Authorization # ""
    \/ req.Header.ProxyAuthenticate # ""
    \/ req.Header.MustRevalidate # ""
    \/ req.Header.SMaxage = "0"
    \/ req.Header.MaxAge = "0"
    \/ req.Header.XNoCache # ""

\* C22: with the default rules a request is turned away exactly when it
\* carries an authorization credential, must-revalidate, s-maxage=0,
\* max-age=0 or the no-cache marker, and the net/http and fasthttp adapters
\* decide alike on the same headers.
DefaultClaim ==
    \A w \in Workers :
        workers[w].kind = "claim" /\ workers[w].pc # "claim" =>
            /\ workers[w].path = "denied" <=> NamedByDefaultRules(workers[w].req)
            /\ \A x \in Workers :
                  workers[x].kind = "claim" /\ workers[x].pc # "claim" =>
                      (workers[x].path = "denied" <=> workers[w].path = "denied")

\* the server has answered a GET that carried a key
AnsweredGet(w) ==
    /\ workers[w].kind = "serveGet" /\ workers[w].pc = "done"
    /\ workers[w].req.key # ""

\* the last POST of the key is still in force at time t: no DELETE came
\* after it and its entry has not expired
InForce(key, t) ==
    /\ key \in DOMAIN lastSet
    /\ lastSet[key].ok
    /\ t <= lastSet[key].at + EffectiveTTL(lastSet[key].ttl)

\* C23: a server GET with cache_key=k is answered from the store: when the
\* store holds an entry for k that has not expired the reply carries that
\* entry's status code, content type and body, otherwise it is the failure
\* status without a body; so a GET that follows a POST of k within the
\* lifetime of the entry returns what was posted.
ServerGetFromStore ==
    /\ [](\A w \in Workers :
             AnsweredGet(w) =>
                 /\ workers[w].path = "hit" =>
                       /\ workers[w].sink.StatusCode = workers[w].v.StatusCode
                       /\ workers[w].sink.Header.ContentType = workers[w].v.ContentType
                       /\ workers[w].sink.Body = workers[w].v.Body
                       /\ workers[w].v.Expires >= workers[w].at
                 /\ workers[w].path # "hit" =>
                       /\ workers[w].sink.StatusCode = failStatus
                       /\ workers[w].sink.Body = <<>>
                 /\ InForce(workers[w].key, workers[w].at) => workers[w].path = "hit")
    /\ [][\A w \in Workers :
             workers[w].kind = "serveGet" =>
                 /\ (workers[w].pc = "getRead" /\ workers'[w].pc # "getRead") =>
                       IF workers[w].key \in DOMAIN cache
                       THEN workers'[w].v = cache[workers[w].key]
                       ELSE workers'[w].pc = "reply" /\ workers'[w].path = "miss"
                 /\ (workers[w].pc = "getCheck" /\ workers'[w].pc # "getCheck") =>
                       (workers'[w].path = "hit" <=> now <= workers[w].v.Expires)
      ]_vars

\* POST cache_key=k1 with body x and no other parameter, then GET
\* cache_key=k1: the body x and the success status
ServerGetWitness ==
    /\ AnsweredGet("w1") /\ workers["w1"].key = "k1"
    /\ workers["w1"].path = "hit"
    /\ workers["w1"].sink.Body = <<"x">>
    /\ workers["w1"].sink.StatusCode = successStatus
    /\ workers["w1"].sink.Header.ContentType = contentText
    /\ InForce("k1", now)

\* the duration the claim gives a POST: the cache_duration parameter, else
\* the max-age of the request's Cache-Control header, else the minimum
ClaimedSeconds(q) ==
    IF q.seconds > 0 THEN q.seconds
    ELSE IF MaxAgeToken(q.Header.CacheControl) > 0
         THEN MaxAgeToken(q.Header.CacheControl)
    ELSE minimumAllowedCacheDuration

\* the server has stored the body of a POST and the entry is still the one
\* of the store
Posted(w) ==
    /\ workers[w].kind = "post" /\ workers[w].pc = "done"
    /\ workers[w].sink.StatusCode = successStatus
    /\ workers[w].key \in DOMAIN cache
    /\ workers[w].key \in DOMAIN lastSet /\ lastSet[workers[w].key].ok

\* C24, as stated: the entry a valid POST stores lives for the cache_duration
\* parameter when given, else for the max-age of the request's own
\* Cache-Control header, else for the minimum allowed duration (floored by
\* the store as every duration is); its status code and content type are the
\* parameters when given, else the defaults.
PostedEntry ==
    \A w \in Workers :
        Posted(w) =>
            LET q == workers[w].req
                e == cache[workers[w].key]
            IN  /\ e.Body = q.Body
                /\ e.Expires - lastSet[workers[w].key].at = EffectiveTTL(ClaimedSeconds(q))
                /\ e.StatusCode = IF q.statusCode > 0 THEN q.statusCode ELSE successStatus
                /\ e.ContentType = IF q.cType # "" THEN q.cType ELSE contentText

\* a request the server calls malformed: no cache_key, a POST without body,
\* or a verb that is not GET, POST or DELETE
Malformed(q) ==
    /\ "key" \in DOMAIN q
    /\ \/ q.key = ""
       \/ q.Method = "POST" /\ q.Body = <<>>
       \/ q.Method \notin {"GET", "POST", "DELETE"}

\* C25, as stated: a malformed server request (no cache_key on any verb, a
\* POST with an empty body, a verb other than GET, POST and DELETE) is
\* answered with the failure status and leaves the store unchanged.
MalformedFails ==
    [][\A w \in Workers :
          (/\ workers[w].pc \in {"idle", "done"}
           /\ workers'[w] # workers[w]
           /\ Malformed(workers'[w].req)) =>
              /\ workers'[w].pc = "done"
              /\ workers'[w].sink.StatusCode = failStatus
              /\ workers'[w].sink.Body = <<>>
              /\ workers'[w].storeOps = 0
              /\ tasks' = tasks
              /\ cache' = cache
      ]_vars

\* C26: a server DELETE with cache_key=k is answered with the success status
\* whether or not the store holds k; its Remove takes k out of the store and
\* leaves the entries of all other keys as they were, k is absent while the
\* answer is outstanding and the answer changes nothing of the store, and
\* every GET of k that follows is a miss until k is POSTed again.
ServerDelete ==
    /\ [](\A w \in Workers :
             /\ (workers[w].kind = "delete" /\ workers[w].pc = "done"
                   /\ workers[w].req.key # "") =>
                   /\ workers[w].sink.StatusCode = successStatus
                   /\ workers[w].path \in {"removed", "absent"}
             /\ (AnsweredGet(w) /\ workers[w].key \in DOMAIN lastSet
                   /\ ~lastSet[workers[w].key].ok) =>
                   /\ workers[w].path = "miss"
                   /\ workers[w].sink.StatusCode = failStatus
                   /\ workers[w].sink.Body = <<>>)
    /\ [][\A w \in Workers :
             /\ (workers[w].kind = "delete" /\ workers[w].pc = "remove"
                   /\ workers'[w].pc # "remove") =>
                    /\ workers'[w].pc = "deleted"
                    /\ DOMAIN cache' = DOMAIN cache \ {workers[w].key}
                    /\ \A k \in DOMAIN cache' : cache'[k] = cache[k]
             /\ (workers[w].kind = "delete" /\ workers[w].pc = "deleted") =>
                    /\ workers[w].key \notin DOMAIN cache
                    /\ workers'[w] # workers[w] =>
                          /\ workers'[w].pc = "done"
                          /\ workers'[w].sink.StatusCode = successStatus
                          /\ cache' = cache
      ]_vars

\* a GET of k1 is a miss after a DELETE of k1, within the lifetime of the
\* entry that was removed, while the entry of k2 is still in the store
ServerDeleteWitness ==
    /\ AnsweredGet("w1") /\ workers["w1"].key = "k1"
    /\ workers["w1"].path = "miss"
    /\ "k1" \in DOMAIN lastSet /\ ~lastSet["k1"].ok
    /\ now <= lastSet["k1"].at + EffectiveTTL(lastSet["k1"].ttl)
    /\ "k2" \in DOMAIN cache
    /\ cache["k2"].Body = <<"y">>

\* the client has taken the path of that name for its request
ClientOn(c, path) == workers[c].kind = "client" /\ workers[c].path = path

\* C27: in the client, when the GET to the remote ends in a transport error
\* or in the failure status, the origin handler runs exactly once, through
\* the recorder, and the caller receives its response; one POST, carrying
\* the recorded body with the status code, content type and duration as
\* parameters, is sent exactly when that body is not empty, and whatever
\* becomes of the POST the caller's response stays as it is.
ClientMissPath ==
    /\ [](\A c \in Workers :
             ClientOn(c, "miss") =>
                LET me == workers[c]
                    origin == DirectOutput(me.req)
                IN  /\ me.remote.err \/ me.remote.StatusCode = failStatus
                    /\ me.gets = 1
                    /\ me.originCalls = 1
                    /\ me.sink = origin
                    /\ me.posts = IF origin.Body # <<>> THEN 1 ELSE 0
                    /\ me.posts = 1 =>
                          /\ me.out.Method = "POST"
                          /\ me.out.key = RemoteKey(me.req)
                          /\ me.out.Body = origin.Body
                          /\ me.out.statusCode = origin.StatusCode
                          /\ me.out.cType = validateContentType(origin.Header.ContentType)
                          /\ me.out.seconds = cacheDuration
                    /\ me.posts = 0 => me.pc = "done")
    /\ [][\A c \in Workers :
             (workers[c].pc = "awaitPost" /\ workers'[c].pc # "awaitPost") =>
                 /\ workers'[c].pc = "done"
                 /\ workers'[c].sink = workers[c].sink
                 /\ workers'[c].originCalls = workers[c].originCalls
                 /\ workers'[c].posts = workers[c].posts
      ]_vars

\* the GET ended in a transport error, the origin handler answered the
\* caller, and the POST of its body never reached the remote
ClientMissWitness ==
    /\ ClientOn("w1", "miss") /\ workers["w1"].pc = "done"
    /\ workers["w1"].remote.err
    /\ workers["w1"].posts = 1
    /\ workers["w1"].sink.Body = <<"GET", "/", "">>
    /\ workers["w2"].pc = "idle"
    /\ cache = <<>>

\* C28, as stated: in the client a response to the GET that is neither a
\* transport error nor the failure status is copied as it is, status code,
\* content type and body, to the caller; the origin handler is not invoked
\* and no POST is sent.
ClientHitCopies ==
    \A c \in Workers :
        (ClientOn(c, "hit") /\ workers[c].pc = "done") =>
            /\ workers[c].sink.StatusCode = workers[c].remote.StatusCode
            /\ workers[c].sink.Header.ContentType = workers[c].remote.ContentType
            /\ workers[c].sink.Body = workers[c].remote.Body
            /\ workers[c].originCalls = 0
            /\ workers[c].posts = 0

\* the response is what the origin handler produces for a request of the key
ProducedByOrigin(sink, key) ==
    \E req \in ClientRequests :
        /\ RemoteKey(req) = key
        /\ sink.StatusCode = validateStatusCode(DirectOutput(req).StatusCode)
        /\ sink.Body = DirectOutput(req).Body
        /\ validateContentType(sink.Header.ContentType) =
              validateContentType(DirectOutput(req).Header.ContentType)

\* C29, as stated: whatever the remote does (unreachable, timed out,
\* answering with an error status, delivering a body that cannot be read),
\* every request of the client ends with the caller holding a response that
\* the origin handler produced, now or earlier for the same key, never an
\* error or an empty reply of the cache layer.
RemoteAdvisory ==
    \A c \in Workers :
        (workers[c].kind = "client" /\ workers[c].pc = "done") =>
            ProducedByOrigin(workers[c].sink, workers[c].key)

\* C30, as stated: in the client a request that the default pre-rules turn
\* away is answered by the origin handler directly, also when the remote
\* holds an entry for its key, and causes no GET and no POST to the remote.
ClientDeniedDirect ==
    \A c \in Workers :
        (workers[c].kind = "client" /\ TurnedAway(workers[c].req)) =>
            /\ workers[c].gets = 0
            /\ workers[c].posts = 0
            /\ workers[c].pc = "done" =>
                  /\ workers[c].originCalls = 1
                  /\ workers[c].sink = DirectOutput(workers[c].req)


\* C31: two client requests that differ in method, scheme, host or path
\* are sent to the remote cache under different keys.
RemoteKeysDistinct ==
    (/\ workers["w1"].pc = "awaitGet" /\ workers["w2"].pc = "awaitGet"
     /\ workers["w1"].req # workers["w2"].req)
    => workers["w1"].key # workers["w2"].key


\* C32, as stated: every request of the client completes, whatever the
\* remote does or fails to do, and a GET that ran into the timeout is
\* handled as a miss: the origin handler runs once and the caller receives
\* its response.
ClientCompletes ==
    /\ [](\A c \in Workers :
             (workers[c].kind = "client" /\ workers[c].pc = "done"
              /\ workers[c].remote.timedOut) =>
                 /\ workers[c].path = "miss"
                 /\ workers[c].originCalls = 1
                 /\ workers[c].sink = DirectOutput(workers[c].req))
    /\ \A c \in Workers :
          (workers[c].pc \in {"awaitGet", "awaitPost", "readAll", "write"})
             ~> (workers[c].pc = "done")


\* the chunks of the Write calls among calls, joined in call order
RECURSIVE Written(_)
Written(calls) ==
    IF calls = <<>> THEN <<>>
    ELSE (IF Head(calls).op = "Write" THEN Head(calls).contents ELSE <<>>)
         \o Written(Tail(calls))

\* the status the first call sets: that of WriteHeader, 200 for Write
FirstStatus(calls) ==
    IF calls = <<>> THEN 0
    ELSE IF Head(calls).op = "WriteHeader" THEN Head(calls).statusCode
    ELSE successStatus

\* the calls of one kind among calls
OfKind(calls, op) == SelectSeq(calls, LAMBDA c : c.op = op)

\* C33, as stated: after any calls of WriteHeader and Write the recorder
\* holds the first status set (200 when Write came first) and the written
\* chunks joined in call order, and the underlying writer has received that
\* status exactly once and the same chunks in the same order.
RecorderFaithful ==
    \A w \in Workers :
        workers[w].kind = "handler" =>
            LET me == workers[w]
                made == SubSeq(me.handler, 1, me.calls)
            IN  /\ me.rec.statusCode = FirstStatus(made)
                /\ getBody(me.rec) = Written(made)
                /\ me.rec.underline.StatusCode = FirstStatus(made)
                /\ me.rec.underline.Body = Written(made)
                /\ OfKind(me.rec.sent, "WriteHeader") =
                      IF made = <<>> THEN <<>>
                      ELSE <<[op |-> "WriteHeader",
                              statusCode |-> FirstStatus(made)]>>
                /\ Written(me.rec.sent) = Written(made)
                /\ Len(OfKind(me.rec.sent, "Write")) = Len(OfKind(made, "Write"))
                /\ me.pc = "done" =>
                      /\ me.v.StatusCode = FirstStatus(made)
                      /\ me.v.Body = Written(made)


\* the steps of the cached handler: the position it moves from and to
PathSteps ==
    { <<"idle", "response">>, <<"done", "response">>,
      <<"idle", "done">>, <<"done", "done">>,
      <<"response", "done">>, <<"response", "origin">>,
      <<"origin", "done">> }

\* the response of the origin handler passes the post-request check
PostValid(req) == ~Refused(req) /\ DirectOutput(req).Body # <<>>

\* C34: every request through a cached handler takes one path and reaches
\* its end: turned away (origin handler once, on the real sink), hit
\* (origin handler not invoked), or miss (origin handler once); the
\* response is persisted at most once per request, and only on a miss whose
\* response passed the post-request check.
OnePath ==
    /\ [](\A w \in Workers :
             workers[w].kind = "req" =>
                LET me == workers[w]
                IN  /\ me.originCalls <= 1 /\ me.sched <= 1
                    /\ me.path = "denied" =>
                          /\ Unclaimed(me.req) /\ me.pc = "done"
                          /\ me.originCalls = 1 /\ me.sched = 0 /\ me.storeOps = 0
                    /\ me.path = "hit" =>
                          /\ ~Unclaimed(me.req) /\ me.pc = "done"
                          /\ me.originCalls = 0 /\ me.sched = 0
                    /\ me.path = "miss" =>
                          /\ ~Unclaimed(me.req) /\ me.pc = "origin"
                          /\ me.originCalls = 0 /\ me.sched = 0
                    /\ me.path = "invalid" =>
                          /\ ~Unclaimed(me.req) /\ ~PostValid(me.req)
                          /\ me.pc = "done"
                          /\ me.originCalls = 1 /\ me.sched = 0
                    /\ me.path = "persist" =>
                          /\ ~Unclaimed(me.req) /\ PostValid(me.req)
                          /\ me.pc = "done"
                          /\ me.originCalls = 1 /\ me.sched = 1
                    /\ me.pc = "done" =>
                          me.path \in {"denied", "hit", "invalid", "persist"})
    /\ [][/\ \A w \in Workers :
               /\ workers'[w] # workers[w] =>
                     <<workers[w].pc, workers'[w].pc>> \in PathSteps
               /\ workers[w].pc \notin {"idle", "done"} =>
                     /\ workers'[w].originCalls >= workers[w].originCalls
                     /\ workers'[w].sched >= workers[w].sched
          /\ (cache' # cache) <=> (\E w \in Workers : workers'[w].sched > workers[w].sched)
          /\ \A w \in Workers :
                workers'[w].sched > workers[w].sched =>
                    /\ workers'[w].key \in DOMAIN cache'
                    /\ cache'[workers'[w].key].Body = workers'[w].sink.Body
                    /\ ~Expired(cache'[workers'[w].key], now)
      ]_vars
    /\ \A w \in Workers :
          (workers[w].kind = "req") ~> (workers[w].kind = "req" /\ workers[w].pc = "done")


\* a request found the entry of an earlier request expired, ran the origin
\* handler and persisted its response
OnePathWitness ==
    /\ Served("w1") /\ workers["w1"].path = "persist"
    /\ workers["w1"].known
    /\ workers["w1"].originCalls = 1 /\ workers["w1"].sched = 1
    /\ workers["w1"].key \in DOMAIN cache
    /\ cache[workers["w1"].key].Expires > cacheDuration


\* C35, as stated: when Get removes the entry of its key, the entry it
\* removes is expired; an entry that a concurrent Set stored after Get's
\* check, and that is not expired, is not deleted by that Get.
GetRemovesOnlyExpired ==
    [][\A w \in Workers :
          (/\ workers[w].pc = "getRemove" /\ workers'[w].pc # "getRemove"
           /\ workers[w].key \in DOMAIN cache
           /\ workers[w].key \notin DOMAIN cache') =>
              Expired(cache[workers[w].key], now)
      ]_vars


\* C36, as stated: a response that was handed to Set before Invalidate or
\* Clear removed its key is not stored once Invalidate or Clear has
\* returned; the key stays absent until a later request persists.
InvalidateNotUndone ==
    [][\A x \in Workers :
          (tasks[x].pc = "ready" /\ tasks'[x].pc = "none") => ~tasks[x].stale
      ]_vars


\* C37, as stated: when the remote cache answers the GET of the client
\* with the entry an earlier miss has POSTed for the key (the answer
\* arrives and its body is read), the request is served from that entry and
\* the origin handler is not invoked, whatever status code the origin
\* handler had produced, the failure status of the protocol included.
StoredServesLater ==
    \A c \in Workers :
        (/\ workers[c].kind = "client" /\ workers[c].pc \in {"awaitPost", "done"}
         /\ workers[c].gets = 1
         /\ ~workers[c].remote.err /\ workers[c].remote # GatewayError
         /\ workers[c].remote.readable
         /\ workers[c].remote.Body # <<>>) =>
            /\ workers[c].path = "hit"
            /\ workers[c].originCalls = 0
            /\ workers[c].sink.Body = workers[c].remote.Body


OperationStep ==
    \E w \in Workers :
        \/ GetRLock(w) \/ GetLookup(w) \/ GetRUnlock(w) \/ GetCheck(w)
        \/ Lock(w) \/ RemoveDelete(w) \/ ClearDelete(w) \/ SweepDelete(w)
        \/ Unlock(w)
        \/ SetBegin(w) \/ SetLock(w) \/ SetStore(w) \/ SetUnlock(w)

\* an operation of the store is under way
UnderWay ==
    \E w \in Workers :
        workers[w].pc \notin {"idle", "done"} \/ tasks[w].pc # "none"

\* a new call of an operation of the store
NewCall ==
    \E w \in Workers, key \in StoreKeys :
        \/ GetEnter(w, key) \/ RemoveEnter(w, key) \/ ClearEnter(w) \/ SweepTick(w)
        \/ CallSet(w, key, Payload(cacheDuration), cacheDuration)

\* C39: no interleaving of Get, Set, Remove, Clear and the sweep on one
\* store deadlocks: while an operation is under way some operation can take
\* a step; the exclusive lock is taken only by a goroutine that holds no
\* lock, while no goroutine holds the shared lock (Get has released it
\* before it calls Remove); an operation that has returned holds no lock;
\* and every operation terminates: the operations under way never wait
\* for each other, so that each of them ends unless calls that take the
\* lock before it keep arriving for ever.
NoDeadlock ==
    /\ [](UnderWay => ENABLED OperationStep)
    /\ [](\A w \in Workers :
             workers[w].pc \in {"idle", "done"} =>
                 (w \notin Shared /\ <<"caller", w>> \notin Exclusive))
    /\ [][\A w \in Workers :
             /\ (workers[w].pc # "locked" /\ workers'[w].pc = "locked") =>
                   (workers[w].pc \in {"lock", "getRemove"} /\ Shared = {}
                    /\ Exclusive = {})
             /\ (workers[w].pc = "getCheck" /\ workers'[w].pc = "getRemove") =>
                   w \notin Shared
             /\ (tasks[w].pc # "locked" /\ tasks'[w].pc = "locked") =>
                   (Shared = {} /\ Exclusive = {})
      ]_vars
    /\ \A w \in Workers :
          \/ []<><<NewCall>>_vars
          \/ /\ (workers[w].pc \notin {"idle", "done"}) ~> (workers[w].pc = "done")
             /\ (tasks[w].pc # "none") ~> (tasks[w].pc = "none")


\* a Get that found its entry expired waits for the exclusive lock of its
\* Remove while another goroutine holds the lock, and a Set waits too
NoDeadlockWitness ==
    \E w \in Workers, v \in Workers :
        /\ w # v
        /\ workers[w].pc = "getRemove"
        /\ (v \in Shared \/ <<"caller", v>> \in Exclusive)
        /\ \E x \in Workers : tasks[x].pc = "ready"


\* C40: the duration a wrapped handler persists with is fixed when the
\* handler is wrapped: the closure's expiration variable keeps the validated
\* argument of the wrap for ever, and every Set a request schedules is given
\* that value, whatever Cache-Control header the request, an earlier request
\* or a request served at the same time carries.
TTLFixedAtWrap ==
    /\ [](expiration = [p \in Keys |-> validateCacheDuration(RouteDuration(p))])
    /\ [][/\ expiration' = expiration
          /\ \A x \in DOMAIN tasks :
                (tasks[x].pc = "none" /\ tasks'[x].pc # "none") =>
                    tasks'[x].expiration = expiration[tasks'[x].key]]_vars

\* two requests for the route wrapped with the minimum, one with a max-age
\* the closure's expression reads as 3 and one without, served at the same
\* time, have both scheduled their Set with the duration of the wrap
TTLFixedWitness ==
    \E w \in Workers, v \in Workers :
        /\ w # v
        /\ Served(w) /\ workers[w].path = "persist"
        /\ Served(v) /\ workers[v].path = "persist"
        /\ getMaxAge(workers[w].req) = 3
        /\ getMaxAge(workers[v].req) # 3
        /\ \A x \in DOMAIN tasks :
              /\ tasks[x].pc # "none"
              /\ tasks[x].key = "/ttl"
              /\ tasks[x].expiration = validateCacheDuration(minimumAllowedCacheDuration)

====
